---------------------------- MODULE Spec2Model ----------------------------
(***************************************************************************)
(* Model of the expression algebra (db/exp.cpp) and of the calling-        *)
(* convention signature engine (db/signature.cpp) of the decompiler.       *)
(*                                                                         *)
(* An expression is a record                                               *)
(*     [cls, op, val, cs, kids]                                            *)
(* cls  : the C++ class of the node (Const, Terminal, Unary, Binary,       *)
(*        Ternary, TypedExp, RefExp, TypeVal, Location)                    *)
(* op   : the OPER tag                                                     *)
(* val  : Const payload (u.i, or an id for u.d / strin), TypedExp/TypeVal  *)
(*        type id, RefExp def (0 = nullptr, -1 = (Instruction* )-1)        *)
(* cs   : Const::conscript                                                 *)
(* kids : the owned children subExp1..subExp3                              *)
(* int is the 32-bit two's-complement int of the build.                    *)
(***************************************************************************)
EXTENDS Integers, Sequences, FiniteSets, TLC

VARIABLES
    pc,       \* position of the driver that applies the operations
    a, b, c,  \* expressions the operations are applied to and return
    cl,       \* result of a->clone() or of a replacement
    res,      \* record of results of the last operation applied
    ub,       \* what the build does with a shift count outside 0..31
    sig,      \* the Signature object the signature operations act on
    proc      \* the UserProc handed to promote

vars == <<pc, a, b, c, cl, res, ub, sig, proc>>

---------------------------------------------------------------------------
(* 32-bit two's-complement arithmetic of the build *)

MaxInt == 2147483647
MinInt == (-MaxInt) - 1

Add32(x, y) ==
    IF y >= 0
    THEN IF x > MaxInt - y THEN ((x - MaxInt) - 1) + ((y - MaxInt) - 1) ELSE x + y
    ELSE IF x < MinInt - y THEN ((x + MaxInt) + 1) + ((y + MaxInt) + 1) ELSE x + y

Neg32(x) == IF x = MinInt THEN MinInt ELSE -x

Sub32(x, y) == Add32(x, Neg32(y))

Not32(x) == (-1) - x

RECURSIVE Mul32(_, _)
Mul32(x, y) ==
    IF y = 0 THEN 0
    ELSE IF y = -1 THEN Neg32(x)
    ELSE Add32(Mul32(Add32(x, x), y \div 2), IF y % 2 = 1 THEN x ELSE 0)

RECURSIVE Pow2(_)
Pow2(k) == IF k = 0 THEN 1 ELSE 2 * Pow2(k - 1)

\* (unsigned)x < (unsigned)y
ULt(x, y) == IF (x < 0) = (y < 0) THEN x < y ELSE y < 0

\* quotient and remainder of (unsigned)x / (unsigned)y, y # 0, as ints
UDivMod(x, y) ==
    IF y < 0 THEN
        IF ULt(x, y) THEN [q |-> 0, r |-> x] ELSE [q |-> 1, r |-> Sub32(x, y)]
    ELSE IF x >= 0 THEN [q |-> x \div y, r |-> x % y]
    ELSE IF y = 1 THEN [q |-> x, r |-> 0]
    ELSE LET h  == (((x + MaxInt) + 1) \div 2) + 1073741824
             l  == x % 2
             q0 == h \div y
             r0 == h % y
             t  == (y - r0) - l
         IN  IF r0 >= t THEN [q |-> 2 * q0 + 1, r |-> r0 - t]
                        ELSE [q |-> 2 * q0, r |-> 2 * r0 + l]

\* quotient and remainder of the signed x / y (truncating), y # 0 and
\* not (x = MinInt and y = -1)
SDivMod(x, y) ==
    IF y = MinInt THEN
        IF x = MinInt THEN [q |-> 1, r |-> 0] ELSE [q |-> 0, r |-> x]
    ELSE LET d == IF y < 0 THEN -y ELSE y
             f == x \div d
             m == x % d
             q == IF x < 0 /\ m # 0 THEN f + 1 ELSE f
             r == IF x < 0 /\ m # 0 THEN m - d ELSE m
         IN  [q |-> IF y < 0 THEN -q ELSE q, r |-> r]

RECURSIVE Shl32(_, _)
Shl32(x, k) == IF k = 0 THEN x ELSE Shl32(Add32(x, x), k - 1)

\* x >> k on a signed int (arithmetic on the build), 0 <= k <= 31
Sar32(x, k) == IF k = 31 THEN (IF x < 0 THEN -1 ELSE 0) ELSE x \div Pow2(k)

Bit(f, x, y) ==
    CASE f = "and" -> x * y
      [] f = "or"  -> IF x + y > 0 THEN 1 ELSE 0
      [] f = "xor" -> (x + y) % 2

RECURSIVE BitOp32(_, _, _)
BitOp32(f, x, y) ==
    IF x \in {0, -1} /\ y \in {0, -1}
    THEN -Bit(f, -x, -y)
    ELSE 2 * BitOp32(f, x \div 2, y \div 2) + Bit(f, x % 2, y % 2)

\* A shift by a count outside 0..31 is undefined: the build either uses the
\* low five bits of the count ("mask") or shifts everything out ("sat").
UBOutcomes == {"mask", "sat"}

ShlC(x, k) ==
    IF k >= 0 /\ k < 32 THEN Shl32(x, k)
    ELSE IF ub = "mask" THEN Shl32(x, k % 32) ELSE 0

SarC(x, k) ==
    IF k >= 0 /\ k < 32 THEN Sar32(x, k)
    ELSE IF ub = "mask" THEN Sar32(x, k % 32) ELSE (IF x < 0 THEN -1 ELSE 0)

---------------------------------------------------------------------------
(* Expression nodes *)

Mk(cls, op, val, cs, kids) ==
    [cls |-> cls, op |-> op, val |-> val, cs |-> cs, kids |-> kids]

IntConst(i)        == Mk("Const", "opIntConst", i, 0, <<>>)
ConstCs(op, v, k)  == Mk("Const", op, v, k, <<>>)
Terminal(op)       == Mk("Terminal", op, 0, 0, <<>>)
Unary(op, e)       == Mk("Unary", op, 0, 0, <<e>>)
Binary(op, e1, e2) == Mk("Binary", op, 0, 0, <<e1, e2>>)
Ternary(op, e1, e2, e3) == Mk("Ternary", op, 0, 0, <<e1, e2, e3>>)
TypedExp(ty, e)    == Mk("TypedExp", "opTypedExp", ty, 0, <<e>>)
RefExp(e, d)       == Mk("RefExp", "opSubscript", d, 0, <<e>>)
TypeVal(ty)        == Mk("TypeVal", "opTypeVal", ty, 0, <<>>)
Location(op, e)    == Mk("Location", op, 0, 0, <<e>>)
regOf(r)           == Location("opRegOf", IntConst(r))
memOf(e)           == Location("opMemOf", e)

\* the defs a RefExp can carry
NullDef == 0
WildDef == -1

sub1(e) == e.kids[1]
sub2(e) == e.kids[2]
sub3(e) == e.kids[3]
setSubExp1(e, x) == [e EXCEPT !.kids[1] = x]
setSubExp2(e, x) == [e EXCEPT !.kids[2] = x]
setOper(e, op)   == [e EXCEPT !.op = op]
setInt(e, i)     == [e EXCEPT !.val = i]

---------------------------------------------------------------------------
(* Statements a RefExp can refer to.  A def is the identity of a statement *)
(* (its address): 0 is nullptr, -1 the wildcard sentinel, 1.. statements.  *)
(* Definitions 1..NumImplicit are implicit assignments, the next one is an *)
(* Assign whose left side is r24, the rest are other ordinary assignments. *)

NumImplicit == 2
NumDefs == 4
DefIds == 1..NumDefs

isImplicit(d) == d \in 1..NumImplicit
isImplicitDef(d) == d = NullDef \/ isImplicit(d)
isAssignToR24(d) == d = NumImplicit + 1

---------------------------------------------------------------------------
(* Exp::clone and its overrides *)

RECURSIVE clone(_)
clone(e) ==
    CASE e.cls = "Const"    -> Mk("Const", e.op, e.val, e.cs, <<>>)
      [] e.cls = "Terminal" -> Terminal(e.op)
      [] e.cls = "Unary"    -> Unary(e.op, clone(sub1(e)))
      [] e.cls = "Binary"   -> Binary(e.op, clone(sub1(e)), clone(sub2(e)))
      [] e.cls = "Ternary"  ->
             Ternary(e.op, clone(sub1(e)), clone(sub2(e)), clone(sub3(e)))
      [] e.cls = "TypedExp" -> TypedExp(e.val, clone(sub1(e)))
      [] e.cls = "RefExp"   -> RefExp(clone(sub1(e)), e.val)
      [] e.cls = "TypeVal"  -> TypeVal(e.val)
      [] e.cls = "Location" -> Location(e.op, clone(sub1(e)))

---------------------------------------------------------------------------
(* operator== : ExpEq(x, o) is  x == o  with x the object the operator is  *)
(* called on.                                                              *)

\* position of each tag in the OPER enumeration
OpList ==
    << "opWild", "opPlus", "opMinus", "opMult", "opDiv", "opFPlus",
       "opFMinus", "opMults", "opDivs", "opMod", "opMods", "opNeg",
       "opAnd", "opOr", "opEquals", "opNotEqual", "opLess", "opGtr",
       "opLessEq", "opGtrEq", "opLessUns", "opGtrUns", "opLessEqUns",
       "opGtrEqUns", "opNot", "opLNot", "opBitAnd", "opBitOr", "opBitXor",
       "opShiftL", "opShiftR", "opShiftRA", "opTern", "opMemberAccess",
       "opArrayIndex", "opSize", "opTruncu", "opTruncs", "opZfill",
       "opSgnEx", "opFsize", "opItof", "opFtoi", "opFNeg", "opInitValueOf",
       "opTypedExp", "opMemOf", "opRegOf", "opAddrOf", "opWildMemOf",
       "opWildRegOf", "opWildAddrOf", "opTemp", "opLocal", "opGlobal",
       "opParam", "opSubscript", "opTypeVal", "opIntConst", "opFltConst",
       "opStrConst", "opWildIntConst", "opWildStrConst", "opPC", "opAFP",
       "opNil", "opTrue", "opFalse", "opDF", "opZF", "opCF" >>

OpOrd(op) == CHOOSE i \in 1..Len(OpList) : OpList[i] = op

isBinaryClass(o) == o.cls \in {"Binary", "Ternary"}

RECURSIVE ExpEq(_, _)

ConstEq(x, o) ==
    IF o.op = "opWild" THEN TRUE
    ELSE IF o.op = "opWildIntConst" /\ x.op = "opIntConst" THEN TRUE
    ELSE IF o.op = "opWildStrConst" /\ x.op = "opStrConst" THEN TRUE
    ELSE IF x.op # o.op THEN FALSE
    ELSE IF (x.cs # 0 /\ x.cs # o.cs) \/ o.cs # 0 THEN FALSE
    ELSE x.op \in {"opIntConst", "opFltConst", "opStrConst"} /\ x.val = o.val

UnaryEq(x, o) ==
    IF o.op = "opWild" THEN TRUE
    ELSE IF o.op = "opWildRegOf" /\ x.op = "opRegOf" THEN TRUE
    ELSE IF o.op = "opWildMemOf" /\ x.op = "opMemOf" THEN TRUE
    ELSE IF o.op = "opWildAddrOf" /\ x.op = "opAddrOf" THEN TRUE
    ELSE IF x.op # o.op THEN FALSE
    ELSE ExpEq(sub1(x), sub1(o))

BinaryEq(x, o) ==
    IF o.op = "opWild" THEN TRUE
    ELSE IF ~isBinaryClass(o) THEN FALSE
    ELSE IF x.op # o.op THEN FALSE
    ELSE IF ~ExpEq(sub1(x), sub1(o)) THEN FALSE
    ELSE ExpEq(sub2(x), sub2(o))

TernaryEq(x, o) ==
    IF o.op = "opWild" THEN TRUE
    ELSE IF o.cls # "Ternary" THEN FALSE
    ELSE IF x.op # o.op THEN FALSE
    ELSE IF ~ExpEq(sub1(x), sub1(o)) THEN FALSE
    ELSE IF ~ExpEq(sub2(x), sub2(o)) THEN FALSE
    ELSE ExpEq(sub3(x), sub3(o))

TerminalEq(x, o) ==
    IF x.op = "opWildIntConst" THEN o.op = "opIntConst"
    ELSE IF x.op = "opWildStrConst" THEN o.op = "opStrConst"
    ELSE IF x.op = "opWildMemOf" THEN o.op = "opMemOf"
    ELSE IF x.op = "opWildRegOf" THEN o.op = "opRegOf"
    ELSE IF x.op = "opWildAddrOf" THEN o.op = "opAddrOf"
    ELSE x.op = "opWild" \/ o.op = "opWild" \/ x.op = o.op

TypedExpEq(x, o) ==
    IF o.op = "opWild" THEN TRUE
    ELSE IF o.op # "opTypedExp" THEN FALSE
    ELSE IF x.val # o.val THEN FALSE
    ELSE ExpEq(sub1(x), sub1(o))

RefExpEq(x, o) ==
    IF o.op = "opWild" THEN TRUE
    ELSE IF o.op # "opSubscript" THEN FALSE
    ELSE IF ~ExpEq(sub1(x), sub1(o)) THEN FALSE
    ELSE IF x.val = WildDef THEN TRUE
    ELSE IF o.val = WildDef THEN TRUE
    ELSE IF x.val = NullDef /\ isImplicitDef(o.val) THEN TRUE
    ELSE IF o.val = NullDef /\ x.val # NullDef /\ isImplicit(x.val) THEN TRUE
    ELSE x.val = o.val

TypeValEq(x, o) ==
    IF o.op = "opWild" THEN TRUE
    ELSE IF o.op # "opTypeVal" THEN FALSE
    ELSE x.val = o.val

ExpEq(x, o) ==
    CASE x.cls = "Const"    -> ConstEq(x, o)
      [] x.cls = "Terminal" -> TerminalEq(x, o)
      [] x.cls \in {"Unary", "Location"} -> UnaryEq(x, o)
      [] x.cls = "Binary"   -> BinaryEq(x, o)
      [] x.cls = "Ternary"  -> TernaryEq(x, o)
      [] x.cls = "TypedExp" -> TypedExpEq(x, o)
      [] x.cls = "RefExp"   -> RefExpEq(x, o)
      [] x.cls = "TypeVal"  -> TypeValEq(x, o)

---------------------------------------------------------------------------
(* operator< : ExpLt(x, o) is  x < o *)

RECURSIVE ExpLt(_, _)

ConstLt(x, o) ==
    IF OpOrd(x.op) < OpOrd(o.op) THEN TRUE
    ELSE IF OpOrd(x.op) > OpOrd(o.op) THEN FALSE
    ELSE IF x.cs # 0 /\ x.cs < o.cs THEN TRUE
    ELSE IF x.cs # 0 /\ x.cs > o.cs THEN FALSE
    ELSE IF x.cs = 0 /\ o.cs # 0 THEN TRUE
    ELSE x.op \in {"opIntConst", "opFltConst", "opStrConst"} /\ x.val < o.val

TerminalLt(x, o) == OpOrd(x.op) < OpOrd(o.op)

UnaryLt(x, o) ==
    IF OpOrd(x.op) < OpOrd(o.op) THEN TRUE
    ELSE IF OpOrd(x.op) > OpOrd(o.op) THEN FALSE
    ELSE ExpLt(sub1(x), sub1(o))

BinaryLt(x, o) ==
    IF OpOrd(x.op) < OpOrd(o.op) THEN TRUE
    ELSE IF OpOrd(x.op) > OpOrd(o.op) THEN FALSE
    ELSE IF ExpLt(sub1(x), sub1(o)) THEN TRUE
    ELSE IF ExpLt(sub1(o), sub1(x)) THEN FALSE
    ELSE ExpLt(sub2(x), sub2(o))

TernaryLt(x, o) ==
    IF OpOrd(x.op) < OpOrd(o.op) THEN TRUE
    ELSE IF OpOrd(x.op) > OpOrd(o.op) THEN FALSE
    ELSE IF ExpLt(sub1(x), sub1(o)) THEN TRUE
    ELSE IF ExpLt(sub1(o), sub1(x)) THEN FALSE
    ELSE IF ExpLt(sub2(x), sub2(o)) THEN TRUE
    ELSE IF ExpLt(sub2(o), sub2(x)) THEN FALSE
    ELSE ExpLt(sub3(x), sub3(o))

TypedExpLt(x, o) ==
    IF OpOrd(x.op) < OpOrd(o.op) THEN TRUE
    ELSE IF OpOrd(x.op) > OpOrd(o.op) THEN FALSE
    ELSE IF x.val < o.val THEN TRUE
    ELSE IF o.val < x.val THEN FALSE
    ELSE ExpLt(sub1(x), sub1(o))

RefExpLt(x, o) ==
    IF OpOrd("opSubscript") < OpOrd(o.op) THEN TRUE
    ELSE IF OpOrd("opSubscript") > OpOrd(o.op) THEN FALSE
    ELSE IF ExpLt(sub1(x), sub1(o)) THEN TRUE
    ELSE IF ExpLt(sub1(o), sub1(x)) THEN FALSE
    ELSE IF x.val = WildDef THEN FALSE
    ELSE IF o.val = WildDef THEN FALSE
    ELSE x.val < o.val

TypeValLt(x, o) ==
    IF OpOrd("opTypeVal") < OpOrd(o.op) THEN TRUE
    ELSE IF OpOrd("opTypeVal") > OpOrd(o.op) THEN FALSE
    ELSE x.val < o.val

ExpLt(x, o) ==
    CASE x.cls = "Const"    -> ConstLt(x, o)
      [] x.cls = "Terminal" -> TerminalLt(x, o)
      [] x.cls \in {"Unary", "Location"} -> UnaryLt(x, o)
      [] x.cls = "Binary"   -> BinaryLt(x, o)
      [] x.cls = "Ternary"  -> TernaryLt(x, o)
      [] x.cls = "TypedExp" -> TypedExpLt(x, o)
      [] x.cls = "RefExp"   -> RefExpLt(x, o)
      [] x.cls = "TypeVal"  -> TypeValLt(x, o)

---------------------------------------------------------------------------
(* Tag predicates of Exp *)

isIntConst(e)  == e.op = "opIntConst"
isIntK(e, k)   == e.op = "opIntConst" /\ e.val = k
isTrue(e)      == e.op = "opTrue"
isFalse(e)     == e.op = "opFalse"
isBoolConst(e) == e.op \in {"opTrue", "opFalse"}
isAddrOf(e)    == e.op = "opAddrOf"
isSubscript(e) == e.op = "opSubscript"
isGlobal(e)    == e.op = "opGlobal"
isLocation(e)  ==
    e.op \in {"opMemOf", "opRegOf", "opGlobal", "opLocal", "opParam"}
isRegOfK(e)    == e.op = "opRegOf" /\ sub1(e).op = "opIntConst"
isRegN(e, n)   == e.op = "opRegOf" /\ isIntK(sub1(e), n)
commute(e)     == [e EXCEPT !.kids = <<e.kids[2], e.kids[1]>>]

---------------------------------------------------------------------------
(* Exp::simplify and the polySimplify overrides.  polySimplify(e, m) is    *)
(* e->polySimplify(bMod) called with bMod = m; it yields the returned      *)
(* expression and the value of bMod afterwards.  A division the processor  *)
(* traps on yields Fault, which every enclosing call passes on.            *)

MaxPasses == 8

Fault == Mk("Fault", "opNil", 0, 0, <<>>)
isFault(e) == e.cls = "Fault"

OutModified(e, m) == [e |-> e, m |-> TRUE]

\* the result of polySimplify: the expression returned and bMod
Out(e, m) == [e |-> e, m |-> m]

Negated(op) ==
    CASE op = "opEquals"    -> "opNotEqual"
      [] op = "opNotEqual"  -> "opEquals"
      [] op = "opLess"      -> "opGtrEq"
      [] op = "opLessEq"    -> "opGtr"
      [] op = "opGtr"       -> "opLessEq"
      [] op = "opGtrEq"     -> "opLess"
      [] op = "opLessUns"   -> "opGtrEqUns"
      [] op = "opLessEqUns" -> "opGtrUns"
      [] op = "opGtrUns"    -> "opLessEqUns"
      [] op = "opGtrEqUns"  -> "opLessUns"

ComparisonOps ==
    {"opEquals", "opNotEqual", "opLess", "opLessEq", "opGtr", "opGtrEq",
     "opLessUns", "opLessEqUns", "opGtrUns", "opGtrEqUns"}

B2I(p) == IF p THEN 1 ELSE 0

\* the switch on op for two integer constants k1, k2
FoldTraps(op, k1, k2) ==
    \/ (op \in {"opDiv", "opMod"} /\ k2 = 0)
    \/ (op \in {"opDivs", "opMods"} /\ (k2 = 0 \/ (k1 = MinInt /\ k2 = -1)))

FoldOps ==
    {"opPlus", "opMinus", "opDiv", "opDivs", "opMod", "opMods", "opMult",
     "opMults", "opShiftL", "opShiftR", "opShiftRA", "opBitOr", "opBitAnd",
     "opBitXor"} \cup ComparisonOps

Fold(op, k1, k2) ==
    CASE op = "opPlus"      -> Add32(k1, k2)
      [] op = "opMinus"     -> Sub32(k1, k2)
      [] op = "opDiv"       -> UDivMod(k1, k2).q
      [] op = "opDivs"      -> SDivMod(k1, k2).q
      [] op = "opMod"       -> UDivMod(k1, k2).r
      [] op = "opMods"      -> SDivMod(k1, k2).r
      [] op = "opMult"      -> Mul32(k1, k2)
      [] op = "opMults"     -> Mul32(k1, k2)
      [] op = "opShiftL"    -> IF k2 >= 32 THEN 0 ELSE ShlC(k1, k2)
      [] op = "opShiftR"    -> SarC(k1, k2)
      [] op = "opShiftRA"   ->
             BitOp32("or", SarC(k1, k2), ShlC(Sub32(ShlC(1, k2), 1), 32 - k2))
      [] op = "opBitOr"     -> BitOp32("or", k1, k2)
      [] op = "opBitAnd"    -> BitOp32("and", k1, k2)
      [] op = "opBitXor"    -> BitOp32("xor", k1, k2)
      [] op = "opEquals"    -> B2I(k1 = k2)
      [] op = "opNotEqual"  -> B2I(k1 # k2)
      [] op = "opLess"      -> B2I(k1 < k2)
      [] op = "opGtr"       -> B2I(k1 > k2)
      [] op = "opLessEq"    -> B2I(k1 <= k2)
      [] op = "opGtrEq"     -> B2I(k1 >= k2)
      [] op = "opLessUns"   -> B2I(ULt(k1, k2))
      [] op = "opGtrUns"    -> B2I(ULt(k2, k1))
      [] op = "opLessEqUns" -> B2I(~ULt(k2, k1))
      [] op = "opGtrEqUns"  -> B2I(~ULt(k1, k2))

RECURSIVE polySimplify(_, _)
RECURSIVE simplifyN(_, _)

\* Exp::polySimplify of Const, Terminal and TypeVal
LeafPolySimplify(e, m) == Out(e, m)

UnaryFoldConst(op, k) ==
    CASE op = "opNeg"  -> Neg32(k)
      [] op = "opNot"  -> Not32(k)
      [] op = "opLNot" -> B2I(k = 0)
      [] op = "opSize" -> k

UnaryPolySimplify(e, m) ==
    LET r1 == polySimplify(sub1(e), m)
        s1 == r1.e
        t  == setSubExp1(e, s1)
    IN  IF isFault(s1) THEN Out(Fault, TRUE)
        ELSE IF e.op \in {"opNot", "opLNot"} /\ s1.op \in ComparisonOps
        THEN Out(setOper(s1, Negated(s1.op)), TRUE)
        ELSE IF e.op \in {"opNeg", "opNot", "opLNot", "opSize"}
        THEN IF s1.op = "opIntConst"
             THEN Out(setInt(s1, UnaryFoldConst(e.op, s1.val)), TRUE)
             ELSE IF e.op = s1.op THEN Out(sub1(s1), TRUE)
             ELSE Out(t, r1.m)
        ELSE IF e.op = "opAddrOf"
        THEN IF s1.op = "opMemOf" THEN Out(sub1(s1), TRUE) ELSE Out(t, r1.m)
        ELSE IF e.op \in {"opMemOf", "opRegOf"}
        THEN LET r2 == polySimplify(s1, r1.m)
             IN  IF isFault(r2.e) THEN Out(Fault, TRUE)
                 ELSE Out(setSubExp1(e, r2.e), r2.m)
        ELSE Out(t, r1.m)

LocationPolySimplify(e, m) ==
    LET r == UnaryPolySimplify(e, m)
    IN  IF isFault(r.e) THEN r
        ELSE IF r.e.op = "opMemOf" /\ sub1(r.e).op = "opAddrOf"
        THEN Out(sub1(sub1(r.e)), TRUE)
        ELSE IF /\ r.e.op = "opMemOf"
                /\ sub1(r.e).op = "opAddrOf"
                /\ sub1(sub1(r.e)).op = "opMemberAccess"
        THEN Out(sub1(sub1(e)), TRUE)
        ELSE r

\* Binary::polySimplify, the rules after the sign of a constant right
\* operand was normalised; t is the node, s1 and s2 its children
BinaryRulesLate(t, m) ==
    LET op == t.op
        s1 == sub1(t)
        s2 == sub2(t)
        fromS1(o) == [t EXCEPT !.op = o, !.kids = <<sub1(s1), sub2(s1)>>]
    IN  IF op \in {"opPlus", "opMinus", "opBitOr"} /\ isIntK(s2, 0)
        THEN Out(s1, TRUE)
        ELSE IF op = "opOr" /\ isFalse(s2) THEN Out(s1, TRUE)
        ELSE IF op \in {"opMult", "opMults", "opBitAnd"} /\ isIntK(s2, 0)
        THEN Out(IntConst(0), TRUE)
        ELSE IF op = "opAnd" /\ isFalse(s2) THEN Out(Terminal("opFalse"), TRUE)
        ELSE IF op \in {"opMult", "opMults"} /\ isIntK(s2, 1) THEN Out(s1, TRUE)
        ELSE IF /\ op \in {"opDiv", "opDivs"}
                /\ s1.op \in {"opMult", "opMults"}
                /\ ExpEq(s2, sub2(s1))
        THEN Out(sub1(s1), TRUE)
        ELSE IF op \in {"opDiv", "opDivs"} /\ isIntK(s2, 1) THEN Out(s1, TRUE)
        ELSE IF op \in {"opMod", "opMods"} /\ isIntK(s2, 1)
        THEN Out(IntConst(0), TRUE)
        ELSE IF /\ op \in {"opMod", "opMods"}
                /\ s1.op \in {"opMult", "opMults"}
                /\ ExpEq(s2, sub2(s1))
        THEN Out(IntConst(0), TRUE)
        ELSE IF op = "opBitAnd" /\ isIntK(s2, -1) THEN Out(s1, TRUE)
        ELSE IF op = "opAnd" /\ ((isIntConst(s2) /\ s2.val # 0) \/ isTrue(s2))
        THEN Out(s1, TRUE)
        ELSE IF op = "opOr" /\ ((isIntConst(s2) /\ s2.val # 0) \/ isTrue(s2))
        THEN Out(Terminal("opTrue"), TRUE)
        ELSE IF op = "opShiftL" /\ isIntConst(s2) /\ s2.val >= 0 /\ s2.val < 32
        THEN Out([t EXCEPT !.op = "opMult",
                           !.kids[2] = setInt(s2, Shl32(1, s2.val))], TRUE)
        ELSE IF op = "opShiftR" /\ isIntConst(s2) /\ s2.val >= 0 /\ s2.val < 32
        THEN Out([t EXCEPT !.op = "opDiv",
                           !.kids[2] = setInt(s2, Shl32(1, s2.val))], TRUE)
        ELSE IF op = "opEquals" /\ isIntK(s2, 1) /\ s1.op = "opEquals"
        THEN Out(fromS1("opEquals"), TRUE)
        ELSE IF /\ op = "opEquals" /\ isIntK(s2, 0) /\ s1.op = "opPlus"
                /\ sub2(s1).op = "opIntConst" /\ sub2(s1).val < 0
        THEN Out([t EXCEPT !.kids =
                      <<sub1(s1), setInt(sub2(s1), Neg32(sub2(s1).val))>>], TRUE)
        ELSE IF op = "opEquals" /\ isIntK(s2, 0) /\ s1.op = "opEquals"
        THEN Out(fromS1("opNotEqual"), TRUE)
        ELSE IF op = "opNotEqual" /\ isIntK(s2, 1) /\ s1.op = "opEquals"
        THEN Out(fromS1("opNotEqual"), TRUE)
        ELSE IF op = "opNotEqual" /\ isIntK(s2, 0) /\ s1.op = "opEquals"
        THEN Out(s1, TRUE)
        ELSE IF /\ op = "opNotEqual" /\ isIntK(s2, 0) /\ s1.op = "opMinus"
                /\ isIntK(sub1(s1), 0)
        THEN Out(Binary("opNotEqual", clone(sub2(s1)), clone(s2)), TRUE)
        ELSE IF op = "opEquals" /\ isIntK(s2, 0) /\ s1.op = "opGtr"
        THEN Out(fromS1("opLessEq"), TRUE)
        ELSE IF op = "opEquals" /\ isIntK(s2, 0) /\ s1.op = "opGtrUns"
        THEN Out(fromS1("opLessEqUns"), TRUE)
        ELSE IF /\ op = "opOr" /\ s2.op = "opEquals"
                /\ s1.op \in {"opGtrEq", "opLessEq", "opGtrEqUns", "opLessEqUns"}
                /\ \/ (ExpEq(sub1(s1), sub1(s2)) /\ ExpEq(sub2(s1), sub2(s2)))
                   \/ (ExpEq(sub1(s1), sub2(s2)) /\ ExpEq(sub2(s1), sub1(s2)))
        THEN Out(s1, TRUE)
        ELSE IF op \in {"opOr", "opAnd"}
        THEN LET q1 == polySimplify(s1, m)
                 q2 == polySimplify(s2, q1.m)
             IN  IF isFault(q1.e) \/ isFault(q2.e) THEN Out(Fault, TRUE)
                 ELSE Out([t EXCEPT !.kids = <<q1.e, q2.e>>], q2.m)
        ELSE IF op = "opBitAnd" /\ ExpEq(s1, s2) THEN Out(s1, TRUE)
        ELSE IF /\ op = "opPlus" /\ s2.op = "opMult" /\ ExpEq(s1, sub1(s2))
                /\ sub2(s2).op = "opIntConst"
        THEN Out(setSubExp2(s2, setInt(sub2(s2), Add32(sub2(s2).val, 1))), TRUE)
        ELSE IF /\ op = "opMult" /\ s1.op = "opMult" /\ isIntConst(s2)
                /\ sub2(s1).op = "opIntConst"
        THEN Out(setSubExp2(s1, setInt(sub2(s1), Mul32(sub2(s1).val, s2.val))),
                 TRUE)
        ELSE IF op = "opLNot" /\ s1.op = "opEquals"
        THEN Out(setOper(s1, "opNotEqual"), TRUE)
        ELSE IF op = "opLNot" /\ s1.op = "opNotEqual"
        THEN Out(setOper(s1, "opEquals"), TRUE)
        ELSE IF op = "opFMinus" /\ s1.op = "opFltConst" /\ s1.val = 0
        THEN Out(Unary("opFNeg", s2), TRUE)
        ELSE IF /\ op \in {"opPlus", "opMinus"}
                /\ s1.op \in {"opMults", "opMult"}
                /\ isIntConst(s2) /\ sub2(s1).op = "opIntConst"
                /\ s2.val = sub2(s1).val
        THEN Out(Binary(s1.op, Binary(op, clone(sub1(s1)), IntConst(1)),
                        IntConst(s2.val)), TRUE)
        ELSE IF /\ op \in {"opPlus", "opMinus"} /\ s1.op = "opPlus"
                /\ isIntConst(s2)
                /\ sub2(s1).op \in {"opMults", "opMult"}
                /\ sub2(sub2(s1)).op = "opIntConst"
                /\ s2.val = sub2(sub2(s1)).val
        THEN Out(Binary("opPlus", sub1(s1),
                        Binary(sub2(s1).op,
                               Binary(op, clone(sub1(sub2(s1))), IntConst(1)),
                               IntConst(s2.val))), TRUE)
        ELSE IF /\ op \in {"opDiv", "opMod"} /\ s1.op = "opPlus" /\ isIntConst(s2)
                /\ sub1(s1).op = "opMult" /\ sub2(s1).op = "opMult"
                /\ sub2(sub1(s1)).op = "opIntConst"
                /\ sub2(sub2(s1)).op = "opIntConst"
        THEN LET ka == sub2(sub1(s1)).val
                 kb == sub2(sub2(s1)).val
                 kc == s2.val
             IN  IF \/ FoldTraps("opMods", ka, kc)
                    \/ /\ FoldTraps("opMods", kb, kc)
                       /\ (op = "opMod" \/ SDivMod(ka, kc).r = 0)
                 THEN Out(Fault, TRUE)
                 ELSE LET ra == SDivMod(ka, kc).r
                          rb == SDivMod(kb, kc).r
                      IN  IF op = "opDiv"
                          THEN IF ra = 0 /\ rb = 0
                               THEN Out(Binary("opPlus",
                                      Binary("opMult", sub1(sub1(s1)),
                                             IntConst(SDivMod(ka, kc).q)),
                                      Binary("opMult", sub1(sub2(s1)),
                                             IntConst(SDivMod(kb, kc).q))), TRUE)
                               ELSE Out(t, m)
                          ELSE IF ra = 0 /\ rb = 0 THEN Out(IntConst(0), TRUE)
                          ELSE IF ra = 0
                          THEN Out(Binary("opMod", clone(sub2(s1)), IntConst(kc)),
                                   TRUE)
                          ELSE IF rb = 0
                          THEN Out(Binary("opMod", clone(sub1(s1)), IntConst(kc)),
                                   TRUE)
                          ELSE Out(t, m)
        ELSE IF /\ op = "opBitAnd" /\ s1.op = "opMinus"
                /\ isIntK(sub1(s1), 0)
                /\ sub2(s1).op = "opLessUns"
                /\ isIntK(sub1(sub2(s1)), 0)
        THEN Out(s2, TRUE)
        ELSE IF op = "opSize" /\ isLocation(s2) THEN Out(s2, TRUE)
        ELSE Out(t, m)

\* Binary::polySimplify from the commutations on; t is the node with its
\* simplified children
BinaryRulesEarly(t0, m) ==
    LET op == t0.op
        t1 == IF sub1(t0).op = "opIntConst"
                 /\ op \in {"opPlus", "opMult", "opMults", "opBitOr", "opBitAnd"}
              THEN commute(t0) ELSE t0
        t2 == IF isBoolConst(sub1(t1)) /\ ~isBoolConst(sub2(t1))
                 /\ op \in {"opAnd", "opOr"}
              THEN commute(t1) ELSE t1
        t  == IF isAddrOf(sub2(t2)) /\ isSubscript(sub1(sub2(t2)))
                 /\ isGlobal(sub1(sub1(sub2(t2)))) /\ op = "opPlus"
              THEN commute(t2) ELSE t2
        s1 == sub1(t)
        s2 == sub2(t)
    IN  IF /\ op = "opPlus" /\ s1.op = "opPlus" /\ s2.op = "opIntConst"
           /\ sub2(s1).op = "opIntConst"
        THEN Out(setSubExp2(s1, setInt(sub2(s1), Add32(sub2(s1).val, s2.val))),
                 TRUE)
        ELSE IF /\ op = "opPlus" /\ s1.op = "opMinus" /\ s2.op = "opIntConst"
                /\ sub2(s1).op = "opIntConst"
        THEN Out([s1 EXCEPT !.op = "opPlus",
                            !.kids[2] = setInt(sub2(s1),
                                Add32(Neg32(sub2(s1).val), s2.val))], TRUE)
        ELSE IF /\ op \in {"opMinus", "opPlus"}
                /\ s1.op \in {"opMults", "opMult"}
                /\ ExpEq(s2, sub1(s1))
        THEN Out(setSubExp2(s1, Binary(op, sub2(s1), IntConst(1))), TRUE)
        ELSE IF /\ op = "opPlus" /\ s2.op \in {"opMults", "opMult"}
                /\ ExpEq(s1, sub1(s2))
        THEN Out(setSubExp2(s2, Binary("opPlus", sub2(s2), IntConst(1))), TRUE)
        ELSE IF op \in {"opPlus", "opMinus"} /\ s2.op = "opIntConst" /\ s2.val < 0
        THEN BinaryRulesLate(
                 [t EXCEPT !.op = IF op = "opPlus" THEN "opMinus" ELSE "opPlus",
                           !.kids[2] = setInt(s2, Neg32(s2.val))], m)
        ELSE BinaryRulesLate(t, m)

BinaryPolySimplify(e, m) ==
    LET r1 == polySimplify(sub1(e), m)
        r2 == polySimplify(sub2(e), r1.m)
        s1 == r1.e
        s2 == r2.e
        op == e.op
        t  == [e EXCEPT !.kids = <<s1, s2>>]
    IN  IF isFault(s1) \/ isFault(s2) THEN Out(Fault, TRUE)
        ELSE IF s1.op = "opIntConst" /\ s2.op = "opIntConst" /\ op \in FoldOps
        THEN IF FoldTraps(op, s1.val, s2.val) THEN Out(Fault, TRUE)
             ELSE Out(IntConst(Fold(op, s1.val, s2.val)), TRUE)
        ELSE IF op \in {"opBitXor", "opMinus"} /\ ExpEq(s1, s2)
        THEN Out(IntConst(0), TRUE)
        ELSE IF op \in {"opBitOr", "opBitAnd"} /\ ExpEq(s1, s2)
        THEN Out(s1, TRUE)
        ELSE IF op = "opEquals" /\ ExpEq(s1, s2)
        THEN Out(Terminal("opTrue"), TRUE)
        ELSE BinaryRulesEarly(t, r2.m)

\* Ternary::polySimplify.  A Location built by the expression algebra has
\* no procedure, so the constant lookup of fsize(m[K]) does nothing.
TernaryPolySimplify(e, m) ==
    LET r1 == polySimplify(sub1(e), m)
        r2 == polySimplify(sub2(e), r1.m)
        r3 == polySimplify(sub3(e), r2.m)
        s1 == r1.e
        s2 == r2.e
        s3 == r3.e
        op == e.op
        t  == [e EXCEPT !.kids = <<s1, s2, s3>>]
    IN  IF isFault(s1) \/ isFault(s2) \/ isFault(s3) THEN Out(Fault, TRUE)
        ELSE IF op = "opTern" /\ isIntK(s2, 1) /\ isIntK(s3, 0)
        THEN Out(s1, TRUE)
        ELSE IF op = "opTern" /\ isIntK(s1, 1) THEN Out(s2, TRUE)
        ELSE IF op = "opTern" /\ isIntK(s1, 0) THEN Out(s3, TRUE)
        ELSE IF op \in {"opSgnEx", "opZfill"} /\ s3.op = "opIntConst"
        THEN Out(s3, TRUE)
        ELSE IF /\ op = "opFsize" /\ s3.op = "opItof"
                /\ ExpEq(s1, sub2(s3)) /\ ExpEq(s2, sub1(s3))
        THEN Out(s3, TRUE)
        ELSE IF op = "opFsize" /\ s3.op = "opFltConst" THEN Out(s3, TRUE)
        ELSE IF op = "opItof" /\ s3.op = "opIntConst" /\ isIntK(s2, 32)
        THEN Out(ConstCs("opFltConst", s3.val, 0), TRUE)
        ELSE IF /\ op \in {"opTruncu", "opTruncs"} /\ isIntConst(s3)
                /\ s1.val = 32 /\ s2.val \in {16, 8}
        THEN Out(IntConst(BitOp32("and", s3.val,
                                  IF s2.val = 16 THEN 65535 ELSE 255)), TRUE)
        ELSE Out(t, r3.m)

\* Exp::simplify with at most n passes of the loop
simplifyN(e, n) ==
    IF n = 0 THEN e
    ELSE LET r == polySimplify(e, FALSE)
         IN  IF isFault(r.e) THEN Fault
             ELSE IF r.m THEN simplifyN(r.e, n - 1)
             ELSE r.e

TypedExpPolySimplify(e, m) ==
    IF sub1(e).op = "opRegOf" THEN Out(sub1(e), TRUE)
    ELSE LET s == simplifyN(sub1(e), MaxPasses)
         IN  IF isFault(s) THEN Out(Fault, TRUE)
             ELSE Out(setSubExp1(e, s), m)

RefExpPolySimplify(e, m) ==
    LET r == polySimplify(sub1(e), m)
        t == setSubExp1(e, r.e)
    IN  IF isFault(r.e) THEN Out(Fault, TRUE)
        ELSE IF r.m THEN Out(t, TRUE)
        ELSE IF r.e.op = "opDF" /\ e.val = NullDef
        THEN Out(IntConst(0), TRUE)
        ELSE IF isRegN(r.e, 0) /\ e.val \in DefIds /\ isAssignToR24(e.val)
        THEN Out(TypedExp(16, RefExp(regOf(24), e.val)), TRUE)
        ELSE Out(t, r.m)

polySimplify(e, m) ==
    CASE e.cls = "Unary"    -> UnaryPolySimplify(e, m)
      [] e.cls = "Location" -> LocationPolySimplify(e, m)
      [] e.cls = "Binary"   -> BinaryPolySimplify(e, m)
      [] e.cls = "Ternary"  -> TernaryPolySimplify(e, m)
      [] e.cls = "TypedExp" -> TypedExpPolySimplify(e, m)
      [] e.cls = "RefExp"   -> RefExpPolySimplify(e, m)
      [] OTHER              -> LeafPolySimplify(e, m)

---------------------------------------------------------------------------
(* Structural operations: clone, operator== and operator< applied to       *)
(* constructed expressions.                                                *)

MaxConscript == 2
NumTypes == 2

NoExp == Mk("None", "opNil", 0, 0, <<>>)

\* the expressions constructed: every node kind, constants with and
\* without conscript, references with null, implicit and ordinary defs
StructExps ==
    LET ConstExps ==
            {IntConst(k) : k \in 0..1}
            \cup {ConstCs("opIntConst", 1, k) : k \in 1..MaxConscript}
            \cup {ConstCs("opFltConst", 1, 0), ConstCs("opStrConst", 1, 0)}
        RefExps == {RefExp(regOf(24), d) : d \in {NullDef} \cup DefIds}
    IN  ConstExps \cup RefExps
        \cup {Terminal("opPC"), TypeVal(1), regOf(24), memOf(regOf(24))}
        \cup {Unary("opNeg", k) : k \in ConstExps}
        \cup {TypedExp(t, regOf(24)) : t \in 1..NumTypes}
        \cup {Binary("opPlus", r, IntConst(1)) : r \in RefExps}
        \cup {Ternary("opTern", Terminal("opPC"), k, regOf(24)) :
                  k \in {IntConst(0), ConstCs("opIntConst", 1, 1)}}

RECURSIVE hasWild(_)
hasWild(e) ==
    \/ e.op \in {"opWild", "opWildIntConst", "opWildStrConst", "opWildMemOf",
                 "opWildRegOf", "opWildAddrOf"}
    \/ (e.cls = "RefExp" /\ e.val = WildDef)
    \/ \E i \in 1..Len(e.kids) : hasWild(e.kids[i])

InitStruct ==
    /\ pc = "start"
    /\ a \in StructExps
    /\ b \in StructExps
    /\ c \in StructExps
    /\ cl = NoExp
    /\ res = NoExp
    /\ ub = "mask"
    /\ sig = NoExp
    /\ proc = NoExp

DoClone ==
    /\ pc = "start"
    /\ cl' = clone(a)
    /\ pc' = "cloned"
    /\ UNCHANGED <<a, b, c, res, ub, sig, proc>>

DoCompare ==
    /\ pc = "cloned"
    /\ res' = [op |-> "compare",
               eqClA |-> ExpEq(cl, a),
               eqAA |-> ExpEq(a, a), eqAB |-> ExpEq(a, b), eqBA |-> ExpEq(b, a),
               eqBC |-> ExpEq(b, c), eqAC |-> ExpEq(a, c),
               ltAB |-> ExpLt(a, b), ltBA |-> ExpLt(b, a),
               ltBC |-> ExpLt(b, c), ltAC |-> ExpLt(a, c)]
    /\ pc' = "compared"
    /\ UNCHANGED <<a, b, c, cl, ub, sig, proc>>

NextStruct == DoClone \/ DoCompare

SpecStruct == InitStruct /\ [][NextStruct]_vars

\* C3: for every constructed expression e of every node kind, including
\* constants with any conscript, clone(e) == e under operator==.
C3_CloneEqual == pc = "compared" => res.eqClA

\* C4: operator== is reflexive, symmetric and transitive on expressions
\* without wildcard tags and without the wild-def sentinel, including
\* RefExps with null, implicit and ordinary definitions and constants with
\* conscripts.
C4_EqEquivalence ==
    (pc = "compared" /\ ~hasWild(a) /\ ~hasWild(b) /\ ~hasWild(c)) =>
        /\ res.eqAA
        /\ res.eqAB = res.eqBA
        /\ (res.eqAB /\ res.eqBC) => res.eqAC

\* C5: on expressions without wildcards, for every pair a, b exactly one of
\* a < b, a == b, b < a holds, and < is transitive.
C5_StrictTotalOrder ==
    (pc = "compared" /\ ~hasWild(a) /\ ~hasWild(b) /\ ~hasWild(c)) =>
        /\ (IF res.ltAB THEN 1 ELSE 0) + (IF res.eqAB THEN 1 ELSE 0)
               + (IF res.ltBA THEN 1 ELSE 0) = 1
        /\ (res.ltAB /\ res.ltBC) => res.ltAC

---------------------------------------------------------------------------
(* Simplification: Exp::simplify applied to a constructed expression, and  *)
(* again to its result.                                                    *)

\* the expressions constructed: literals, r24, every foldable operator on
\* two leaves, unary operators, and sums, products and shifts nested twice
SimpExps ==
    LET SimpConsts == {IntConst(k) : k \in {-8, -3, 0, 1, 2, 5, 32}}
        SimpLeaves == SimpConsts \cup {regOf(24)}
        SimpUnaryOps == {"opNeg", "opNot", "opLNot"}
        SimpArithOps == {"opPlus", "opMinus", "opMult", "opShiftR"}
    IN  SimpLeaves
        \cup {Binary(op, x, y) :
                  op \in FoldOps, x \in SimpLeaves, y \in SimpLeaves}
        \cup {Unary(op, x) : op \in SimpUnaryOps, x \in SimpLeaves}
        \cup {Binary(op2, Binary(op1, x, k1), k2) :
                  op1 \in SimpArithOps, op2 \in SimpArithOps,
                  x \in {regOf(24), IntConst(-8)},
                  k1 \in SimpConsts, k2 \in SimpConsts}
        \cup {Unary(op, Binary(op1, IntConst(2), k)) :
                  op \in SimpUnaryOps,
                  op1 \in {"opLess", "opMinus", "opShiftRA"},
                  k \in SimpConsts}
        \cup {Ternary("opTern", x, k1, k2) :
                  x \in SimpLeaves, k1 \in {IntConst(1), IntConst(5)},
                  k2 \in {IntConst(0), regOf(24)}}
        \cup {Binary("opEquals", Binary(op1, regOf(24), k1), k2) :
                  op1 \in {"opPlus", "opMinus"}, k1 \in SimpConsts,
                  k2 \in {IntConst(0), IntConst(1)}}

InitSimp ==
    /\ pc = "simp"
    /\ a \in SimpExps
    /\ b = NoExp
    /\ c = NoExp
    /\ cl = NoExp
    /\ res = NoExp
    /\ ub \in UBOutcomes
    /\ sig = NoExp
    /\ proc = NoExp

\* b = a->simplify()
DoSimplify ==
    /\ pc = "simp"
    /\ b' = simplifyN(a, MaxPasses)
    /\ pc' = IF isFault(b') THEN "fault" ELSE "simplified"
    /\ UNCHANGED <<a, c, cl, res, ub, sig, proc>>

\* c = b->simplify()
DoSimplifyAgain ==
    /\ pc = "simplified"
    /\ c' = simplifyN(b, MaxPasses)
    /\ pc' = IF isFault(c') THEN "fault" ELSE "resimplified"
    /\ UNCHANGED <<a, b, cl, res, ub, sig, proc>>

\* bMod = false; res = a->polySimplify(bMod)
DoPolySimplify ==
    /\ pc = "simp"
    /\ res' = polySimplify(a, FALSE)
    /\ pc' = "poly"
    /\ UNCHANGED <<a, b, c, cl, ub, sig, proc>>

NextSimp == DoSimplify \/ DoSimplifyAgain \/ DoPolySimplify

SpecSimp == InitSimp /\ [][NextSimp]_vars

\* C1: simplify applied to the result of simplify(e) returns an expression
\* structurally equal to simplify(e).
C1_SimplifyIdempotent == pc = "resimplified" => ExpEq(c, b)

\* Integer evaluation of a closed expression over 32-bit two's-complement
\* arithmetic: >> is the logical shift (an unsigned division by 2^k), >>A
\* the arithmetic one, and a shift by a count outside 0..31 gives 0.
EvalBinary(op, x, y) ==
    CASE op = "opPlus"      -> Add32(x, y)
      [] op = "opMinus"     -> Sub32(x, y)
      [] op = "opDiv"       -> UDivMod(x, y).q
      [] op = "opDivs"      -> SDivMod(x, y).q
      [] op = "opMod"       -> UDivMod(x, y).r
      [] op = "opMods"      -> SDivMod(x, y).r
      [] op = "opMult"      -> Mul32(x, y)
      [] op = "opMults"     -> Mul32(x, y)
      [] op = "opShiftL"    -> IF y >= 0 /\ y < 32 THEN Shl32(x, y) ELSE 0
      [] op = "opShiftR"    ->
             IF y < 0 \/ y >= 32 THEN 0
             ELSE IF y = 0 THEN x
             ELSE UDivMod(x, Shl32(1, y)).q
      [] op = "opShiftRA"   -> IF y >= 0 /\ y < 32 THEN Sar32(x, y) ELSE 0
      [] op = "opBitOr"     -> BitOp32("or", x, y)
      [] op = "opBitAnd"    -> BitOp32("and", x, y)
      [] op = "opBitXor"    -> BitOp32("xor", x, y)
      [] op = "opEquals"    -> B2I(x = y)
      [] op = "opNotEqual"  -> B2I(x # y)
      [] op = "opLess"      -> B2I(x < y)
      [] op = "opGtr"       -> B2I(x > y)
      [] op = "opLessEq"    -> B2I(x <= y)
      [] op = "opGtrEq"     -> B2I(x >= y)
      [] op = "opLessUns"   -> B2I(ULt(x, y))
      [] op = "opGtrUns"    -> B2I(ULt(y, x))
      [] op = "opLessEqUns" -> B2I(~ULt(y, x))
      [] op = "opGtrEqUns"  -> B2I(~ULt(x, y))

\* Eval(e) is [ok, v]: ok is FALSE when e is not a closed integer expression
\* of the foldable operators or divides by zero (or INT_MIN by -1)
RECURSIVE Eval(_)
Eval(e) ==
    IF e.op = "opIntConst" /\ e.cls = "Const" THEN [ok |-> TRUE, v |-> e.val]
    ELSE IF e.op = "opTrue" THEN [ok |-> TRUE, v |-> 1]
    ELSE IF e.op = "opFalse" THEN [ok |-> TRUE, v |-> 0]
    ELSE IF e.cls = "Unary" /\ e.op \in {"opNeg", "opNot", "opLNot"}
    THEN LET x == Eval(sub1(e))
         IN  IF ~x.ok THEN x
             ELSE [ok |-> TRUE, v |-> UnaryFoldConst(e.op, x.v)]
    ELSE IF e.cls = "Binary" /\ e.op \in FoldOps
    THEN LET x == Eval(sub1(e))
             y == Eval(sub2(e))
         IN  IF ~x.ok \/ ~y.ok \/ FoldTraps(e.op, x.v, y.v)
             THEN [ok |-> FALSE, v |-> 0]
             ELSE [ok |-> TRUE, v |-> EvalBinary(e.op, x.v, y.v)]
    ELSE [ok |-> FALSE, v |-> 0]

\* C2: for a closed integer expression e of the foldable operators whose
\* value is defined, simplify(e) evaluates to the same 32-bit value as e.
C2_SimplifyPreservesValue ==
    (pc = "simplified" /\ Eval(a).ok) => (Eval(b).ok /\ Eval(b).v = Eval(a).v)

---------------------------------------------------------------------------
(* Search and replace.  A hit is the slot (SharedExp* ) holding a matching *)
(* subexpression; a slot is named by the path of child indices from top.   *)

RECURSIVE doSearch(_, _, _, _, _)

\* doSearchChildren of Exp, Unary, Binary and Ternary; li is the list so far
doSearchChildren(search, src, path, li, once) ==
    IF src.cls \in {"Unary", "Location", "RefExp", "TypedExp"}
    THEN IF src.op # "opInitValueOf"
         THEN doSearch(search, sub1(src), Append(path, 1), li, once)
         ELSE li
    ELSE IF src.cls = "Binary"
    THEN LET l1 == doSearch(search, sub1(src), Append(path, 1), li, once)
         IN  IF once /\ Len(l1) > 0 THEN l1
             ELSE doSearch(search, sub2(src), Append(path, 2), l1, once)
    ELSE IF src.cls = "Ternary"
    THEN LET l1 == doSearch(search, sub1(src), Append(path, 1), li, once)
             l2 == doSearch(search, sub2(src), Append(path, 2), l1, once)
         IN  IF once /\ Len(l1) > 0 THEN l1
             ELSE IF once /\ Len(l2) > 0 THEN l2
             ELSE doSearch(search, sub3(src), Append(path, 3), l2, once)
    ELSE li

\* doSearch recursing into the children of a matched opSubscript as well
doSearchBelowSubscript(search, src, path, li, once) ==
    LET compare == ExpEq(search, src)
        l1 == IF compare THEN Append(li, path) ELSE li
    IN  IF compare /\ once THEN l1
        ELSE doSearchChildren(search, src, path, l1, once)

doSearch(search, src, path, li, once) ==
    LET compare == ExpEq(search, src)
        l1 == IF compare THEN Append(li, path) ELSE li
    IN  IF compare /\ once THEN l1
        ELSE IF ~compare \/ src.op # "opSubscript"
        THEN doSearchChildren(search, src, path, l1, once)
        ELSE l1

RECURSIVE subAt(_, _)
subAt(e, path) ==
    IF path = <<>> THEN e ELSE subAt(e.kids[Head(path)], Tail(path))

\* *pp = r for the slot pp at path
RECURSIVE assignAt(_, _, _)
assignAt(e, path, r) ==
    IF path = <<>> THEN r
    ELSE [e EXCEPT !.kids[Head(path)] = assignAt(@, Tail(path), r)]

\* the loop of searchReplaceAll over li[i..]; a slot inside a subexpression
\* that an earlier iteration replaced is no longer part of top
RECURSIVE replaceSlots(_, _, _, _)
replaceSlots(top, li, i, replace) ==
    IF i > Len(li) THEN top
    ELSE IF \E j \in 1..(i - 1) :
                /\ Len(li[j]) < Len(li[i])
                /\ SubSeq(li[i], 1, Len(li[j])) = li[j]
    THEN replaceSlots(top, li, i + 1, replace)
    ELSE replaceSlots(assignAt(top, li[i], clone(replace)), li, i + 1, replace)

\* e->searchReplaceAll(search, replace, change, once); same is this == &search
searchReplaceAll(e, search, replace, once, same) ==
    IF same THEN [e |-> clone(replace), change |-> TRUE]
    ELSE LET li == doSearch(search, e, <<>>, <<>>, FALSE)
         IN  IF once /\ Len(li) > 0
             THEN [e |-> assignAt(e, li[1], clone(replace)), change |-> TRUE]
             ELSE [e |-> replaceSlots(e, li, 1, replace),
                   change |-> Len(li) # 0]

\* e->search(search, result)
search(e, pattern) ==
    LET li == doSearch(pattern, e, <<>>, <<>>, FALSE)
    IN  IF Len(li) > 0
        THEN [found |-> TRUE, result |-> subAt(e, li[1])]
        ELSE [found |-> FALSE, result |-> NoExp]

SearchPatterns ==
    {regOf(24), IntConst(3), IntConst(5), ConstCs("opIntConst", 5, 1),
     Terminal("opPC"), Terminal("opWild"),
     Binary("opPlus", regOf(24), IntConst(3))}
    \cup {RefExp(regOf(24), d) : d \in {NullDef, 1, NumDefs}}

SearchExps ==
    LET SearchLeaves ==
            {regOf(24), IntConst(3), IntConst(5), ConstCs("opIntConst", 5, 1),
             Terminal("opPC")}
    IN  SearchPatterns
        \cup {Binary("opPlus", x, y) :
                  x \in SearchPatterns, y \in SearchLeaves}
        \cup {Unary("opInitValueOf", x) : x \in SearchLeaves}
        \cup {Binary("opMinus", Unary("opInitValueOf", x), y) :
                  x \in {IntConst(3), IntConst(5)}, y \in SearchLeaves}
        \cup {RefExp(RefExp(regOf(24), NullDef), 1)}
        \cup {Ternary("opTern", x, IntConst(3), y) :
                  x \in {regOf(24), IntConst(3)},
                  y \in {IntConst(3), Unary("opInitValueOf", IntConst(3))}}

\* a = e, b = p, c = q
InitSearch ==
    /\ pc = "search"
    /\ a \in SearchExps
    /\ b \in SearchPatterns
    /\ c \in SearchPatterns
    /\ cl = NoExp
    /\ res = NoExp
    /\ ub = "mask"
    /\ sig = NoExp
    /\ proc = NoExp

\* e->search(p, result) and e->search(q, result); li and first are the
\* lists doSearch(p, e, li, false) and doSearch(p, e, li, true) fill
DoSearch ==
    /\ pc = "search"
    /\ res' = [op |-> "search", found |-> search(a, b).found,
               qFound |-> search(a, c).found, same |-> NoExp, back |-> NoExp,
               li |-> doSearch(b, a, <<>>, <<>>, FALSE),
               first |-> doSearch(b, a, <<>>, <<>>, TRUE)]
    /\ pc' = "searched"
    /\ UNCHANGED <<a, b, c, cl, ub, sig, proc>>

\* e->clone()->searchReplaceAll(p, p, change)
DoReplaceSame ==
    /\ pc = "searched"
    /\ \E once \in BOOLEAN :
           res' = [res EXCEPT
                      !.same = searchReplaceAll(clone(a), b, b, once, FALSE).e]
    /\ pc' = "replacedSame"
    /\ UNCHANGED <<a, b, c, cl, ub, sig, proc>>

\* e->clone()->searchReplaceAll(p, q, change)
DoReplace ==
    /\ pc = "replacedSame"
    /\ cl' = searchReplaceAll(clone(a), b, c, FALSE, FALSE).e
    /\ pc' = "replaced"
    /\ UNCHANGED <<a, b, c, res, ub, sig, proc>>

\* the result of the replacement ->searchReplaceAll(q, p, change)
DoReplaceBack ==
    /\ pc = "replaced"
    /\ res' = [res EXCEPT !.back = searchReplaceAll(cl, c, b, FALSE, FALSE).e]
    /\ pc' = "roundTrip"
    /\ UNCHANGED <<a, b, c, cl, ub, sig, proc>>

NextSearch == DoSearch \/ DoReplaceSame \/ DoReplace \/ DoReplaceBack

SpecSearch == InitSearch /\ [][NextSearch]_vars

\* C6: if search(p) finds a hit in e then searchReplaceAll(p, p) on e
\* returns an expression equal to e, and when q does not occur in e,
\* replacing p by q and then q by p returns an expression equal to e.
C6_SearchReplaceRoundTrip ==
    /\ (pc \in {"replacedSame", "replaced", "roundTrip"} /\ res.found)
           => ExpEq(res.same, a)
    /\ (pc = "roundTrip" /\ ~res.qFound) => ExpEq(res.back, a)

---------------------------------------------------------------------------
(* Exp::partitionTerms.  The three output containers are the record        *)
(* [positives, negatives, integers] of sequences.                          *)

NumPartRegs == 2

RECURSIVE partitionTerms(_, _, _)

partitionTermsSameSign(e, st, negate) ==
    IF e.op = "opPlus"
    THEN partitionTerms(sub2(e), partitionTerms(sub1(e), st, negate), negate)
    ELSE IF e.op = "opMinus"
    THEN partitionTerms(sub2(e), partitionTerms(sub1(e), st, negate), negate)
    ELSE IF e.op = "opTypedExp"
    THEN partitionTerms(sub1(e), st, negate)
    ELSE IF e.op = "opIntConst"
    THEN [st EXCEPT !.integers =
             Append(@, IF negate THEN Neg32(e.val) ELSE e.val)]
    ELSE IF negate
    THEN [st EXCEPT !.negatives = Append(@, e)]
    ELSE [st EXCEPT !.positives = Append(@, e)]

partitionTerms(e, st, negate) ==
    IF e.op = "opPlus"
    THEN partitionTerms(sub2(e), partitionTerms(sub1(e), st, negate), negate)
    ELSE IF e.op = "opMinus"
    THEN partitionTerms(sub2(e), partitionTerms(sub1(e), st, negate), ~negate)
    ELSE IF e.op = "opTypedExp"
    THEN partitionTerms(sub1(e), st, negate)
    ELSE IF e.op = "opIntConst"
    THEN [st EXCEPT !.integers =
             Append(@, IF negate THEN Neg32(e.val) ELSE e.val)]
    ELSE IF negate
    THEN [st EXCEPT !.negatives = Append(@, e)]
    ELSE [st EXCEPT !.positives = Append(@, e)]

\* std::accumulate(integers.begin(), integers.end(), 0)
RECURSIVE SumInts(_)
SumInts(s) == IF s = <<>> THEN 0 ELSE Add32(Head(s), SumInts(Tail(s)))

\* Exp::Accumulate(exprs): the right-nested sum of the clones
RECURSIVE Accumulate(_)
Accumulate(exprs) ==
    IF Len(exprs) = 0 THEN IntConst(0)
    ELSE IF Len(exprs) = 1 THEN clone(exprs[1])
    ELSE Binary("opPlus", clone(Head(exprs)), Accumulate(Tail(exprs)))

\* Exp::simplifyArith and its overrides in Unary, Binary and Ternary
RECURSIVE simplifyArith(_)
simplifyArith(e) ==
    LET RemoveAt(s, i) == SubSeq(s, 1, i - 1) \o SubSeq(s, i + 1, Len(s))
        \* the cancelling loop; pp and nn are the positions of the iterators
        RECURSIVE cancel(_, _, _, _)
        cancel(pos, neg, pp, nn) ==
            IF pp > Len(pos) THEN [positives |-> pos, negatives |-> neg]
            ELSE LET hits == {j \in nn..Len(neg) : ExpEq(pos[pp], neg[j])}
                 IN  IF hits = {}
                     THEN cancel(pos, neg, pp + 1, Len(neg) + 1)
                     ELSE LET j == CHOOSE h \in hits : \A k \in hits : h <= k
                          IN  cancel(RemoveAt(pos, pp), RemoveAt(neg, j), pp, j)
        t == [e EXCEPT !.kids = [i \in 1..Len(e.kids) |-> simplifyArith(e.kids[i])]]
        st == partitionTerms(t, [positives |-> <<>>, negatives |-> <<>>,
                                 integers |-> <<>>], FALSE)
        cd == cancel(st.positives, st.negatives, 1, 1)
        sum == SumInts(st.integers)
        op == IF sum < 0 THEN "opMinus" ELSE "opPlus"
        abs == IF sum < 0 THEN Neg32(sum) ELSE sum
    IN  IF e.cls \in {"Unary", "Location", "RefExp", "TypedExp"}
        THEN IF e.op \in {"opMemOf", "opRegOf", "opAddrOf", "opSubscript"}
             THEN t ELSE e
        ELSE IF e.cls = "Ternary" THEN t
        ELSE IF e.cls # "Binary" THEN e
        ELSE IF e.op \notin {"opPlus", "opMinus"} THEN t
        ELSE IF Len(cd.positives) = 0
        THEN IF Len(cd.negatives) = 0 THEN IntConst(sum)
             ELSE Binary("opMinus", IntConst(sum), Accumulate(cd.negatives))
        ELSE IF Len(cd.negatives) = 0
        THEN IF sum = 0 THEN Accumulate(cd.positives)
             ELSE Binary(op, Accumulate(cd.positives), IntConst(abs))
        ELSE IF sum = 0
        THEN Binary("opMinus", Accumulate(cd.positives),
                    Accumulate(cd.negatives))
        ELSE Binary(op, Binary("opMinus", Accumulate(cd.positives),
                                Accumulate(cd.negatives)), IntConst(abs))

PartOpaque == {regOf(r) : r \in 24..(23 + NumPartRegs)}

\* the +, - and typed-wrapper trees of depth at most 2 over integer
\* constants and opaque terms
PartExps ==
    LET PartLeaves == {IntConst(k) : k \in {MinInt, -3, 5}} \cup PartOpaque
        Grow(S) ==
            S \cup {Binary(op, x, y) :
                        op \in {"opPlus", "opMinus"}, x \in S, y \in S}
              \cup {TypedExp(1, x) : x \in S}
    IN  Grow(Grow(PartLeaves))

InitPart ==
    /\ pc = "part"
    /\ a \in PartExps
    /\ b = NoExp
    /\ c = NoExp
    /\ cl = NoExp
    /\ res = NoExp
    /\ ub = "mask"
    /\ sig = NoExp
    /\ proc = NoExp

\* a->partitionTerms(positives, negatives, integers, false)
DoPartition ==
    /\ pc = "part"
    /\ res' = partitionTerms(a, [positives |-> <<>>, negatives |-> <<>>,
                               integers |-> <<>>], FALSE)
    /\ pc' = "partitioned"
    /\ UNCHANGED <<a, b, c, cl, ub, sig, proc>>

\* b = a->simplifyArith()
DoSimplifyArith ==
    /\ pc = "part"
    /\ b' = simplifyArith(a)
    /\ pc' = "arith"
    /\ UNCHANGED <<a, c, cl, res, ub, sig, proc>>

NextPart == DoPartition \/ DoSimplifyArith

SpecPart == InitPart /\ [][NextPart]_vars

\* values the opaque terms can take
PartValuations == [PartOpaque -> {-1, 1, MaxInt, MinInt}]

\* 32-bit value of a +/- tree under the valuation v of its opaque terms
RECURSIVE TermValue(_, _)
TermValue(e, v) ==
    IF e.op = "opPlus"
    THEN Add32(TermValue(sub1(e), v), TermValue(sub2(e), v))
    ELSE IF e.op = "opMinus"
    THEN Sub32(TermValue(sub1(e), v), TermValue(sub2(e), v))
    ELSE IF e.op = "opTypedExp" THEN TermValue(sub1(e), v)
    ELSE IF e.op = "opIntConst" THEN e.val
    ELSE v[e]

RECURSIVE SumTerms(_, _)
SumTerms(s, v) ==
    IF s = <<>> THEN 0 ELSE Add32(TermValue(Head(s), v), SumTerms(Tail(s), v))

\* C7: after partitionTerms(positives, negatives, integers, false) on e,
\* sum(positives) - sum(negatives) + sum(integers) equals the 32-bit value
\* of e for every assignment of values to the opaque terms.
C7_PartitionCorrect ==
    pc = "partitioned" =>
        \A v \in PartValuations :
            Add32(Sub32(SumTerms(res.positives, v), SumTerms(res.negatives, v)),
                  SumInts(res.integers)) = TermValue(a, v)

C7_Witness ==
    /\ pc = "partitioned"
    /\ a = Binary("opMinus", TypedExp(1, regOf(24)),
                  Binary("opMinus", regOf(25), IntConst(MinInt)))
    /\ res = [positives |-> <<regOf(24)>>, negatives |-> <<regOf(25)>>,
              integers |-> <<MinInt>>]

---------------------------------------------------------------------------
(* Signatures (db/signature.cpp).  A signature is a record                 *)
(*     [cls, params, returns, unknown, forced, ellipsis]                   *)
(* cls is its class: Signature, Win32, Win32Tc, Pentium, Sparc, SparcLib,  *)
(* PPC, MIPS or ST20.  A Parameter is [type, name, exp], a Return is       *)
(* [type, exp]; the name paramN is the number N.  A procedure is the       *)
(* record [plat, isWin32, provenPC, provenSP] of what promote reads of it. *)

MaxParams == 2

SigClasses ==
    {"Signature", "Win32", "Win32Tc", "Pentium", "Sparc", "SparcLib", "PPC",
     "MIPS", "ST20"}

Parameter(type, name, exp) == [type |-> type, name |-> name, exp |-> exp]
Return(type, exp) == [type |-> type, exp |-> exp]

\* Signature::Signature(nam)
SignatureCtor ==
    [cls |-> "Signature", params |-> <<>>, returns |-> <<>>,
     unknown |-> TRUE, forced |-> FALSE, ellipsis |-> FALSE]

\* Signature::addReturn(exp)
addReturn(s, exp) ==
    [s EXCEPT !.returns = Append(@, Return("void*", exp))]

\* the virtual addReturn(type, e) with e given: the conventions' overrides
\* ignore a void type, then all call Signature::addReturn(type, e)
addReturnTyped(s, type, e) ==
    IF s.cls # "Signature" /\ type = "void" THEN s
    ELSE [s EXCEPT !.returns = Append(@, Return(type, e))]

\* the constructors taking a name
Construct(cls) ==
    LET s == [SignatureCtor EXCEPT !.cls = cls]
    IN  CASE cls = "Win32"    -> addReturn(s, regOf(28))
          [] cls = "Win32Tc"  -> addReturn(addReturn(s, regOf(28)), regOf(28))
          [] cls = "Pentium"  -> addReturn(s, regOf(28))
          [] cls = "Sparc"    -> addReturn(s, regOf(14))
          [] cls = "SparcLib" -> addReturn(s, regOf(14))
          [] cls = "PPC"      -> addReturn(s, regOf(1))
          [] cls = "MIPS"     -> addReturn(s, regOf(2))
          [] cls = "ST20"     -> addReturn(s, regOf(3))
          [] OTHER            -> s

\* the constructors taking a Signature &old
CopyAs(cls, old) == [old EXCEPT !.cls = cls]

\* the name paramN for N = params.size() + 1, taken or not
AutoNameBySize(s) == Len(s.params) + 1

\* the first free name paramN with N > params.size()
AutoName(s) ==
    LET used == {s.params[i].name : i \in 1..Len(s.params)}
        n0 == Len(s.params) + 1
    IN  CHOOSE n \in n0..(n0 + Len(s.params)) :
            n \notin used /\ \A k \in n0..(n - 1) : k \in used

\* addParameter(type, QString::null, e) with an expression e
addParameter(s, type, e) ==
    [s EXCEPT !.params = Append(@, Parameter(type, AutoName(s), e))]

ParameterEq(x, o) == x.type = o.type /\ x.name = o.name /\ ExpEq(x.exp, o.exp)
ReturnEq(x, o) == x.type = o.type /\ ExpEq(x.exp, o.exp)

\* Signature::operator== and its overrides, which all call it
SigEq(x, o) ==
    /\ Len(x.params) = Len(o.params)
    /\ \A i \in 1..Len(x.params) : ParameterEq(x.params[i], o.params[i])
    /\ Len(x.returns) = Len(o.returns)
    /\ \A i \in 1..Len(x.returns) : ReturnEq(x.returns[i], o.returns[i])

savedReturnLocation == memOf(regOf(28))
stackPlusFour == Binary("opPlus", regOf(28), IntConst(4))

Win32Qualified(p) ==
    IF p.plat # "PENTIUM" \/ ~p.isWin32 THEN FALSE
    ELSE LET gotcorrectret1 ==
                 p.provenPC # NoExp /\ ExpEq(p.provenPC, savedReturnLocation)
             gotcorrectret2 ==
                 gotcorrectret1 /\ p.provenSP # NoExp
                 /\ ExpEq(p.provenSP, stackPlusFour)
         IN  gotcorrectret1 /\ gotcorrectret2
\* qualified of PentiumSignature, SparcSignature, PPCSignature, MIPSSignature
\* and ST20Signature: the platform of the procedure's program is plat
PlatformQualified(plat, p) == p.plat = plat

SignaturePromoteAlways(s, p) ==
    IF Win32Qualified(p) THEN CopyAs("Win32", s)
    ELSE IF PlatformQualified("PENTIUM", p) THEN CopyAs("Pentium", s)
    ELSE IF PlatformQualified("SPARC", p) THEN CopyAs("Sparc", s)
    ELSE IF PlatformQualified("PPC", p) THEN CopyAs("PPC", s)
    ELSE CopyAs("ST20", s)

\* Signature::promote, also the promote of MIPSSignature
SignaturePromote(s, p) ==
    IF Win32Qualified(p) THEN CopyAs("Win32", s)
    ELSE IF PlatformQualified("PENTIUM", p) THEN CopyAs("Pentium", s)
    ELSE IF PlatformQualified("SPARC", p) THEN CopyAs("Sparc", s)
    ELSE IF PlatformQualified("PPC", p) THEN CopyAs("PPC", s)
    ELSE IF PlatformQualified("ST20", p) THEN CopyAs("ST20", s)
    ELSE s

ConventionPromoteFresh(s, p) == Construct(s.cls)

\* promote of Win32Signature, PentiumSignature, SparcSignature,
\* PPCSignature and ST20Signature: return shared_from_this()
ConventionPromote(s, p) == s

promote(s, p) ==
    IF s.cls \in {"Signature", "MIPS"} THEN SignaturePromote(s, p)
    ELSE ConventionPromote(s, p)

regNum(e) == sub1(e).val

\* params.size(), not counting a first parameter that is r28
Win32NumParams(s) ==
    IF Len(s.params) > 0 /\ ExpEq(s.params[1].exp, regOf(28))
    THEN Len(s.params) - 1
    ELSE Len(s.params)

Win32GetProvenAllParams(s, left) ==
    IF ~isRegOfK(left) THEN NoExp
    ELSE IF regNum(left) = 28
    THEN Binary("opPlus", regOf(28), IntConst(4 + Len(s.params) * 4))
    ELSE IF regNum(left) \in {27, 29, 30, 31} THEN regOf(regNum(left))
    ELSE NoExp

Win32GetProven(s, left) ==
    IF ~isRegOfK(left) THEN NoExp
    ELSE IF regNum(left) = 28
    THEN Binary("opPlus", regOf(28), IntConst(4 + Win32NumParams(s) * 4))
    ELSE IF regNum(left) \in {27, 29, 30, 31} THEN regOf(regNum(left))
    ELSE NoExp

Win32TcGetProven(s, left) ==
    IF isRegOfK(left) /\ regNum(left) = 28
    THEN Binary("opPlus", regOf(28),
                IntConst((4 + Win32NumParams(s) * 4) - 4))
    ELSE Win32GetProven(s, left)

PentiumGetProven(s, left) ==
    IF ~isRegOfK(left) THEN NoExp
    ELSE IF regNum(left) = 28
    THEN Binary("opPlus", regOf(28), IntConst(4))
    ELSE IF regNum(left) \in {29, 30, 31, 27} THEN regOf(regNum(left))
    ELSE NoExp

PPCGetProven(s, left) ==
    IF isRegOfK(left) /\ regNum(left) = 1 THEN left ELSE NoExp

ST20GetProven(s, left) ==
    IF ~isRegOfK(left) THEN NoExp
    ELSE IF regNum(left) = 3 THEN left
    ELSE IF regNum(left) \in {0, 1, 2} THEN regOf(regNum(left))
    ELSE NoExp

getStackRegister(s) ==
    CASE s.cls \in {"Win32", "Win32Tc", "Pentium"} -> 28
      [] s.cls \in {"Sparc", "SparcLib"}           -> 14
      [] s.cls = "PPC"                             -> 1
      [] s.cls = "MIPS"                            -> 29
      [] s.cls = "ST20"                            -> 3

MIPSGetProven(s, left) ==
    IF isRegOfK(left) /\ regNum(left) = getStackRegister(s) THEN left
    ELSE NoExp

SparcGetProven(s, left) ==
    IF isRegOfK(left) /\ regNum(left) \in ({14} \cup (24..31)) THEN left
    ELSE NoExp

SparcLibGetProven(s, left) ==
    IF isRegOfK(left) /\ regNum(left) \in ({14} \cup (24..31) \cup {2, 3, 4})
    THEN left
    ELSE NoExp

\* getProven of the base class
SignatureGetProven(s, left) == NoExp

getProven(s, left) ==
    CASE s.cls = "Win32"    -> Win32GetProven(s, left)
      [] s.cls = "Win32Tc"  -> Win32TcGetProven(s, left)
      [] s.cls = "Pentium"  -> PentiumGetProven(s, left)
      [] s.cls = "Sparc"    -> SparcGetProven(s, left)
      [] s.cls = "SparcLib" -> SparcLibGetProven(s, left)
      [] s.cls = "PPC"      -> PPCGetProven(s, left)
      [] s.cls = "MIPS"     -> MIPSGetProven(s, left)
      [] s.cls = "ST20"     -> ST20GetProven(s, left)
      [] OTHER              -> SignatureGetProven(s, left)

\* isPreserved of Win32Signature, PentiumSignature, SparcSignature,
\* PPCSignature and MIPSSignature; ST20Signature inherits the one of the base
\* class, which preserves nothing
isPreserved(s, e) ==
    CASE s.cls \in {"Win32", "Win32Tc", "Pentium"} ->
             isRegOfK(e) /\ regNum(e) \in {29, 27, 30, 31, 3, 5, 6, 7, 11, 15}
      [] s.cls \in {"Sparc", "SparcLib"} ->
             isRegOfK(e) /\ regNum(e) \in ({14} \cup (24..31))
      [] s.cls = "PPC"  -> isRegOfK(e) /\ regNum(e) = 1
      [] s.cls = "MIPS" -> isRegOfK(e) /\ regNum(e) = getStackRegister(s)
      [] OTHER          -> FALSE

\* Signature::getParamExp(n): asserts n < params.size()
getParamExp(s, n) ==
    IF n < Len(s.params) THEN s.params[n + 1].exp ELSE Fault

getArgumentExpOnStack(s, n) ==
    IF s.cls = "Signature" \/ n < Len(s.params) THEN getParamExp(s, n)
    ELSE memOf(Binary("opPlus", regOf(getStackRegister(s)),
                      IntConst((n + 1) * 4)))

\* getArgumentExp of Signature and of each convention; SparcLibSignature
\* inherits the one of SparcSignature
getArgumentExp(s, n) ==
    LET \* Win32, Pentium and ST20: all on the stack above sp
        onStack(sp) ==
            LET m == IF Len(s.params) # 0
                        /\ ExpEq(s.params[1].exp, regOf(sp))
                     THEN n - 1 ELSE n
            IN  memOf(Binary("opPlus", regOf(sp), IntConst((m + 1) * 4)))
        \* SPARC, PPC and MIPS: the first nregs in registers from first
        inRegs(nregs, first, sp, off) ==
            IF n >= nregs
            THEN memOf(Binary("opPlus", regOf(sp),
                              IntConst(off + (n - nregs) * 4)))
            ELSE regOf(first + n)
    IN  IF s.cls = "Signature" \/ n < Len(s.params) THEN getParamExp(s, n)
        ELSE CASE s.cls = "Win32"   -> onStack(28)
               [] s.cls = "Win32Tc" ->
                      LET m == IF Len(s.params) # 0
                                  /\ ExpEq(s.params[1].exp, regOf(28))
                               THEN n - 1 ELSE n
                      IN  IF m = 0 THEN regOf(25)
                          ELSE memOf(Binary("opPlus", regOf(28),
                                            IntConst(m * 4)))
               [] s.cls = "Pentium" -> onStack(28)
               [] s.cls = "ST20"    -> onStack(3)
               [] s.cls \in {"Sparc", "SparcLib"} -> inRegs(6, 8, 14, 92)
               [] s.cls = "PPC"     -> inRegs(8, 3, 1, 8)
               [] s.cls = "MIPS"    -> inRegs(4, 8, 29, 4 * 4)

\* QString::null and the empty string as parameter names; a name N > 0 is
\* "paramN", the name 0 is a name not of that form
NullName == -1
EmptyName == -2

\* the virtual addParameter(type, nam, e, boundMax): the conventions'
\* overrides supply getArgumentExp(params.size()) for a null e, and
\* Signature::addParameter asserts e (without the assertion the two overloads
\* call each other without end); an empty name is named like a null one by
\* the second pass through addParameter(std::shared_ptr<Parameter>)
addParameterNamed(s, type, nam, e) ==
    LET e1 == IF e # NoExp \/ s.cls \in {"Signature", "Custom"} THEN e
              ELSE getArgumentExp(s, Len(s.params))
        new_name == IF nam \in {NullName, EmptyName} THEN AutoName(s) ELSE nam
    IN  IF e1 = NoExp THEN Fault
        ELSE [s EXCEPT !.params = Append(@, Parameter(type, new_name, e1))]

\* Signature::removeParameter(size_t i): the elements after i move down and
\* the vector is resized to size - 1 (which throws on an empty vector)
removeParameter(s, i) ==
    IF Len(s.params) = 0 THEN Fault
    ELSE [s EXCEPT !.params =
              [j \in 1..(Len(@) - 1) |-> IF j < i + 1 THEN @[j] ELSE @[j + 1]]]

\* Signature::setNumParams(n)
setNumParams(s, n) ==
    LET RECURSIVE grow(_, _)
        grow(t, i) ==
            IF i >= n \/ isFault(t) THEN t
            ELSE grow(addParameterNamed(t, "void", NullName, NoExp), i + 1)
    IN  IF n < Len(s.params)
        THEN [s EXCEPT !.params = SubSeq(@, 1, n)]
        ELSE grow(s, Len(s.params))

MaxReg == 31
MaxReturns == 1
MaxArg == 9
Procs ==
    [plat : {"PENTIUM", "SPARC", "PPC", "MIPS", "ST20", "M68K"},
     isWin32 : BOOLEAN,
     provenPC : {NoExp, savedReturnLocation},
     provenSP : {NoExp, stackPlusFour,
                 Binary("opPlus", regOf(28), IntConst(8))}]


InitSig ==
    /\ pc = "sig"
    /\ sig \in {Construct(cls) : cls \in SigClasses}
    /\ proc \in Procs
    /\ a = NoExp
    /\ b = NoExp
    /\ c = NoExp
    /\ cl = NoExp
    /\ res = NoExp
    /\ ub = "mask"

\* sig->addParameter(type, QString::null, e)
SigAddParameter ==
    /\ pc = "sig"
    /\ Len(sig.params) < MaxParams
    /\ \E e \in {regOf(28),
                  memOf(Binary("opPlus", regOf(28), IntConst(4)))} :
           sig' = addParameter(sig, "int", e)
    /\ res' = NoExp
    /\ UNCHANGED <<pc, a, b, c, cl, ub, proc>>

\* sig->addReturn(type, e)
SigAddReturn ==
    /\ pc = "sig"
    /\ Len(sig.returns) < MaxReturns
    /\ \E type \in {"int", "void"} :
           sig' = addReturnTyped(sig, type, regOf(24))
    /\ res' = NoExp
    /\ UNCHANGED <<pc, a, b, c, cl, ub, proc>>

\* sig->isPreserved(e) and sig->getProven(e)
SigQuery ==
    /\ pc = "sig"
    /\ \E e \in {regOf(r) : r \in 0..MaxReg} \cup {savedReturnLocation} :
           res' = [op |-> "query", e |-> e,
                   preserved |-> isPreserved(sig, e),
                   proven |-> getProven(sig, e)]
    /\ UNCHANGED <<pc, a, b, c, cl, ub, sig, proc>>

\* sig->getArgumentExp(n)
SigArgument ==
    /\ pc = "sig"
    /\ \E n \in 0..MaxArg :
           res' = [op |-> "argument", n |-> n, exp |-> getArgumentExp(sig, n)]
    /\ UNCHANGED <<pc, a, b, c, cl, ub, sig, proc>>

\* sig->promote(proc)
SigPromote ==
    /\ pc = "sig"
    /\ res' = [op |-> "promote", first |-> promote(sig, proc),
               second |-> NoExp]
    /\ pc' = "promoted"
    /\ UNCHANGED <<a, b, c, cl, ub, sig, proc>>

\* the result of sig->promote(proc) ->promote(proc)
SigPromoteAgain ==
    /\ pc = "promoted"
    /\ res' = [res EXCEPT !.second = promote(res.first, proc)]
    /\ pc' = "repromoted"
    /\ UNCHANGED <<a, b, c, cl, ub, sig, proc>>

NextSig ==
    \/ SigAddParameter
    \/ SigAddReturn
    \/ SigQuery
    \/ SigArgument
    \/ SigPromote
    \/ SigPromoteAgain

SpecSig == InitSig /\ [][NextSig]_vars

\* C8: for every convention signature (Win32, Win32 thiscall, Pentium,
\* SPARC, SPARC library, PPC, MIPS) and every register r, if
\* isPreserved(reg-of(r)) is true then getProven(reg-of(r)) returns an
\* expression equal to reg-of(r).
C8_PreservedProven ==
    (pc = "sig" /\ res.op = "query"
        /\ sig.cls \in {"Win32", "Win32Tc", "Pentium", "Sparc", "SparcLib",
                        "PPC", "MIPS"}
        /\ isRegOfK(res.e) /\ res.preserved)
    => (res.proven # NoExp /\ ExpEq(res.proven, res.e))

\* C9: promote applied to the result of s.promote(p) returns a signature
\* equal to s.promote(p): same parameters and returns, same class.
C9_PromoteStable ==
    pc = "repromoted" =>
        /\ SigEq(res.second, res.first)
        /\ res.second.cls = res.first.cls

C9_Witness ==
    /\ pc = "repromoted"
    /\ sig.cls = "Signature"
    /\ Len(sig.params) > 0
    /\ res.first.cls = "Pentium"
    /\ res.second = res.first

\* the convention whose qualified predicate is the first to accept p
FirstQualified(p) ==
    IF Win32Qualified(p) THEN "Win32"
    ELSE IF PlatformQualified("PENTIUM", p) THEN "Pentium"
    ELSE IF PlatformQualified("SPARC", p) THEN "Sparc"
    ELSE IF PlatformQualified("PPC", p) THEN "PPC"
    ELSE IF PlatformQualified("MIPS", p) THEN "MIPS"
    ELSE IF PlatformQualified("ST20", p) THEN "ST20"
    ELSE "Signature"

\* C10: Signature::promote on a base signature returns, whenever at least
\* one of the qualified predicates of Win32, Pentium, SPARC, PPC, MIPS and
\* ST20 accepts the procedure, a signature of the first accepting
\* convention that carries the base signature's parameters and returns.
C10_PromoteDispatch ==
    (pc = "promoted" /\ sig.cls = "Signature"
        /\ FirstQualified(proc) # "Signature")
    => /\ res.first.cls = FirstQualified(proc)
       /\ res.first.params = sig.params
       /\ res.first.returns = sig.returns


\* C11: when the qualified predicate of every convention rejects the
\* procedure, Signature::promote on a base signature returns that same
\* signature: class, parameters and returns unchanged, unknown still true.
C11_NoConventionQualifies ==
    (pc = "promoted" /\ sig.cls = "Signature"
        /\ FirstQualified(proc) = "Signature")
    => /\ res.first = sig
       /\ res.first.cls = "Signature"
       /\ res.first.unknown

C11_Witness ==
    /\ pc = "promoted"
    /\ sig.cls = "Signature"
    /\ proc.plat = "M68K"
    /\ Len(sig.params) > 0
    /\ Len(sig.returns) > 0
    /\ res.first = sig


\* C12: with no parameters set, getArgumentExp(0) of each convention's
\* signature equals the first argument location of the convention table:
\* Win32 stdc [esp+4+4(n+1)] at n = 0, Win32 thiscall reg-of(25), Pentium
\* mem-of(r[28] + 4), SPARC reg-of(8), PPC reg-of(3), MIPS reg-of(8), ST20
\* mem-of(r[3] + 4).
C12_FirstArgument ==
    LET slot(sp, off) == memOf(Binary("opPlus", regOf(sp), IntConst(off)))
        first ==
            CASE sig.cls = "Win32"    -> slot(28, 4 + 4 * (res.n + 1))
              [] sig.cls = "Win32Tc"  -> regOf(25)
              [] sig.cls = "Pentium"  -> slot(28, 4)
              [] sig.cls \in {"Sparc", "SparcLib"} -> regOf(8)
              [] sig.cls = "PPC"      -> regOf(3)
              [] sig.cls = "MIPS"     -> regOf(8)
              [] sig.cls = "ST20"     -> slot(3, 4)
    IN  (pc = "sig" /\ res.op = "argument" /\ res.n = 0
            /\ sig.cls # "Signature" /\ Len(sig.params) = 0)
        => ExpEq(res.exp, first)

\* C12 as amended: the same, with mem-of(r[28] + 4) for Win32 stdc.
C12_FirstArgumentAmended ==
    LET slot(sp, off) == memOf(Binary("opPlus", regOf(sp), IntConst(off)))
        first ==
            CASE sig.cls = "Win32"    -> slot(28, 4)
              [] sig.cls = "Win32Tc"  -> regOf(25)
              [] sig.cls = "Pentium"  -> slot(28, 4)
              [] sig.cls \in {"Sparc", "SparcLib"} -> regOf(8)
              [] sig.cls = "PPC"      -> regOf(3)
              [] sig.cls = "MIPS"     -> regOf(8)
              [] sig.cls = "ST20"     -> slot(3, 4)
    IN  (pc = "sig" /\ res.op = "argument" /\ res.n = 0
            /\ sig.cls # "Signature" /\ Len(sig.params) = 0)
        => ExpEq(res.exp, first)

C12_Witness ==
    /\ pc = "sig"
    /\ res.op = "argument"
    /\ res.n = 0
    /\ sig.cls = "Win32"
    /\ Len(sig.params) = 0
    /\ res.exp = memOf(Binary("opPlus", regOf(28), IntConst(4)))


\* C13: getArgumentExp(n) of Pentium, SPARC, PPC, MIPS and ST20 returns
\* the stored parameter expression for n below the number of stored
\* parameters and otherwise, when the first parameter is not the stack
\* pointer, the location the convention's formula gives for n.
C13_ArgumentFormula ==
    LET n == res.n
        slot(sp, off) == memOf(Binary("opPlus", regOf(sp), IntConst(off)))
        formula ==
            CASE sig.cls = "Pentium" -> slot(28, 4 * (n + 1))
              [] sig.cls = "Sparc"   ->
                     IF n < 6 THEN regOf(8 + n)
                     ELSE slot(14, 92 + 4 * (n - 6))
              [] sig.cls = "PPC"     ->
                     IF n < 8 THEN regOf(3 + n)
                     ELSE slot(1, 8 + 4 * (n - 8))
              [] sig.cls = "MIPS"    ->
                     IF n < 4 THEN regOf(8 + n)
                     ELSE slot(29, 16 + 4 * (n - 4))
              [] sig.cls = "ST20"    -> slot(3, 4 * (n + 1))
    IN  (pc = "sig" /\ res.op = "argument"
            /\ sig.cls \in {"Pentium", "Sparc", "PPC", "MIPS", "ST20"})
        => IF n < Len(sig.params)
           THEN res.exp = sig.params[n + 1].exp
           ELSE (Len(sig.params) = 0
                 \/ ~ExpEq(sig.params[1].exp,
                           regOf(getStackRegister(sig))))
                => ExpEq(res.exp, formula)

C13_Witness ==
    /\ pc = "sig"
    /\ res.op = "argument"
    /\ sig.cls = "Sparc"
    /\ Len(sig.params) = 1
    /\ res.n = 6
    /\ res.exp = memOf(Binary("opPlus", regOf(14), IntConst(92)))


\* C14: Win32 getProven(reg-of(28)) returns reg-of(28) + (4 + 4k), k being
\* the number of declared parameters not counting a first parameter whose
\* location is the stack pointer; with 2 declared parameters, the first
\* being the stack pointer, it returns reg-of(28) + 8.
C14_Win32ProvenSP ==
    (pc = "sig" /\ res.op = "query" /\ sig.cls = "Win32"
        /\ res.e = regOf(28))
    => LET counted == {i \in 1..Len(sig.params) :
                          ~(i = 1 /\ ExpEq(sig.params[i].exp, regOf(28)))}
           k == Cardinality(counted)
       IN  /\ res.proven =
                  Binary("opPlus", regOf(28), IntConst(4 + 4 * k))
           /\ (Len(sig.params) = 2 /\ sig.params[1].exp = regOf(28))
                  => res.proven = Binary("opPlus", regOf(28), IntConst(8))

C14_Witness ==
    /\ pc = "sig"
    /\ res.op = "query"
    /\ sig.cls = "Win32"
    /\ res.e = regOf(28)
    /\ Len(sig.params) = 2
    /\ sig.params[1].exp = regOf(28)
    /\ res.proven = Binary("opPlus", regOf(28), IntConst(8))


(***************************************************************************)
(* Exp::killFill.  The hits of doSearch are slots (SharedExp* ) of the     *)
(* original tree; a node is named by its path in the original tree, root   *)
(* is the node the local res points to and kid[p][i] the node that child   *)
(* slot i of node p points to.                                             *)
(***************************************************************************)
killFill(e) ==
    LET srch1 == Ternary("opZfill", Terminal("opWild"), Terminal("opWild"),
                         Terminal("opWild"))
        srch2 == Ternary("opSgnEx", Terminal("opWild"), Terminal("opWild"),
                         Terminal("opWild"))
        result == doSearch(srch2, e, <<>>,
                           doSearch(srch1, e, <<>>, <<>>, FALSE), FALSE)
        RECURSIVE Paths(_, _)
        Paths(x, p) ==
            {p} \cup UNION {Paths(x.kids[i], Append(p, i)) :
                               i \in 1..Len(x.kids)}
        kid0 == [p \in Paths(e, <<>>) |->
                    [i \in 1..Len(subAt(e, p).kids) |-> Append(p, i)]]
        \* *it = ( *it)->getSubExp3() for it = result[i], result[i+1], ...
        RECURSIVE kill(_, _, _)
        kill(i, root, kid) ==
            IF i > Len(result) THEN [root |-> root, kid |-> kid]
            ELSE LET p == result[i]
                 IN  IF p = <<>>
                     THEN kill(i + 1, kid[root][3], kid)
                     ELSE LET owner == SubSeq(p, 1, Len(p) - 1)
                              idx == p[Len(p)]
                              cur == kid[owner][idx]
                          IN  kill(i + 1, root,
                                   [kid EXCEPT ![owner][idx] = kid[cur][3]])
        final == kill(1, <<>>, kid0)
        RECURSIVE Read(_)
        Read(p) ==
            LET nd == subAt(e, p)
            IN  [nd EXCEPT !.kids =
                    [i \in 1..Len(nd.kids) |-> Read(final.kid[p][i])]]
    IN  Read(final.root)

MaxFillDepth == 3

RECURSIVE FillLevel(_)
FillLevel(d) ==
    IF d = 0 THEN {regOf(24), IntConst(3)}
    ELSE LET S == FillLevel(d - 1)
             T == IF d = 1 THEN S ELSE {regOf(24)}
         IN  S \cup {Ternary(op, IntConst(8), IntConst(32), x) :
                        op \in {"opZfill", "opSgnEx"}, x \in S}
               \cup {Binary("opPlus", x, y) : x \in S, y \in T}
               \cup {Ternary("opZfill", x, IntConst(32), IntConst(3)) :
                        x \in S \ FillLevel(0)}

FillExps == FillLevel(MaxFillDepth)

InitFill ==
    /\ pc = "fill"
    /\ a \in FillExps
    /\ b = NoExp
    /\ c = NoExp
    /\ cl = NoExp
    /\ res = NoExp
    /\ ub = "mask"
    /\ sig = NoExp
    /\ proc = NoExp

\* b = a->killFill()
DoKillFill ==
    /\ pc = "fill"
    /\ b' = killFill(a)
    /\ pc' = "filled"
    /\ UNCHANGED <<a, c, cl, res, ub, sig, proc>>

NextFill == DoKillFill

SpecFill == InitFill /\ [][NextFill]_vars

\* C15: the expression returned by killFill contains no zfill and no
\* sgn-ex node, each such node of e having been replaced by its value
\* (third) child, also where one occurs inside the value child of another.
C15_KillFillRemovesAll ==
    LET RECURSIVE Strip(_)
        Strip(x) ==
            IF x.op \in {"opZfill", "opSgnEx"} THEN Strip(sub3(x))
            ELSE [x EXCEPT !.kids = [i \in 1..Len(x.kids) |-> Strip(x.kids[i])]]
        RECURSIVE HasFill(_)
        HasFill(x) ==
            \/ x.op \in {"opZfill", "opSgnEx"}
            \/ \E i \in 1..Len(x.kids) : HasFill(x.kids[i])
    IN  pc = "filled" => (~HasFill(b) /\ b = Strip(a))


\* C16: two constants of the same tag and payload are equal when both
\* conscripts are zero or both are the same non-zero value, and unequal
\* when the non-zero conscripts differ or exactly one is non-zero.
C16_ConscriptEquality ==
    (pc = "compared" /\ a.cls = "Const" /\ b.cls = "Const"
        /\ a.op = b.op /\ a.val = b.val)
    => (res.eqAB <=> (a.cs = b.cs))


(***************************************************************************)
(* The loop of Exp::simplify, one pass at a time: b is res, and res.n the  *)
(* number of passes made.                                                  *)
(***************************************************************************)
InitLoop ==
    /\ pc = "loop"
    /\ a \in SimpExps
    /\ b = a
    /\ c = NoExp
    /\ cl = NoExp
    /\ res = [op |-> "passes", n |-> 0]
    /\ ub \in UBOutcomes
    /\ sig = NoExp
    /\ proc = NoExp

\* bMod = false; res = res->polySimplify(bMod); while (bMod)
SimplifyPass ==
    /\ pc = "loop"
    /\ res.n < MaxPasses
    /\ LET r == polySimplify(b, FALSE)
       IN  /\ b' = r.e
           /\ pc' = IF isFault(r.e) THEN "fault"
                    ELSE IF r.m THEN "loop" ELSE "done"
    /\ res' = [res EXCEPT !.n = @ + 1]
    /\ UNCHANGED <<a, c, cl, ub, sig, proc>>

NextLoop == SimplifyPass

SpecLoop == InitLoop /\ [][NextLoop]_vars

C18_ArithCancelsAll ==
    (pc = "arith" /\ a.cls = "Binary")
    => LET st == partitionTerms(b, [positives |-> <<>>, negatives |-> <<>>,
                                    integers |-> <<>>], FALSE)
       IN  /\ \A i \in 1..Len(st.positives), j \in 1..Len(st.negatives) :
                  ~ExpEq(st.positives[i], st.negatives[j])
           /\ a = Binary("opMinus", Binary("opPlus", regOf(24), regOf(25)),
                         regOf(25))
                  => b = regOf(24)


\* C19: Binary::polySimplify never faults on two integer-constant
\* children: for every operator it folds and every pair of constants,
\* including a zero divisor for the division and modulo operators and a
\* shift amount >= 32 or negative for the shift operators, it returns an
\* expression, and a shift amount >= 32 folds to the constant 0.
C19_FoldNeverFaults ==
    (pc = "poly" /\ a.cls = "Binary"
        /\ sub1(a).op = "opIntConst" /\ sub2(a).op = "opIntConst")
    => /\ ~isFault(res.e)
       /\ (a.op \in {"opShiftL", "opShiftR", "opShiftRA"}
               /\ sub2(a).val >= 32)
              => res.e = IntConst(0)

\* C20: for integer constants k1 and 0 <= k2 < 32, k1 >>A k2 folds to the
\* 32-bit value of k1 shifted right by k2 with the sign bit of k1
\* replicated, so a non-negative k1 folds to a non-negative constant.
C20_ShiftRASignExtends ==
    (pc = "poly" /\ a.op = "opShiftRA"
        /\ sub1(a).op = "opIntConst" /\ sub2(a).op = "opIntConst"
        /\ sub2(a).val >= 0 /\ sub2(a).val < 32)
    => /\ res.e = IntConst(Sar32(sub1(a).val, sub2(a).val))
       /\ sub1(a).val >= 0 => res.e.val >= 0


\* C21: Exp::simplify rewrites (x + c) = 0, where c is a negative integer
\* constant -y with y > 0 and x is not a constant, to x = y.
C21_PlusNegEqualsZero ==
    (pc = "simplified" /\ a.op = "opEquals" /\ sub2(a) = IntConst(0)
        /\ sub1(a).op = "opPlus" /\ sub1(sub1(a)) = regOf(24)
        /\ sub2(sub1(a)).op = "opIntConst" /\ sub2(sub1(a)).val < 0)
    => b = Binary("opEquals", regOf(24), IntConst(-sub2(sub1(a)).val))


\* the slots of e, each named by its path from the top
RECURSIVE SearchPaths(_)
SearchPaths(e) ==
    {<<>>} \cup UNION {{<<i>> \o p : p \in SearchPaths(e.kids[i])} :
                          i \in 1..Len(e.kids)}

\* p comes before q in a pre-order walk
PreOrderBefore(p, q) ==
    \E i \in 1..Len(q) :
        /\ i <= Len(p) + 1
        /\ \A j \in 1..(i - 1) : p[j] = q[j]
        /\ (i = Len(p) + 1 \/ p[i] < q[i])

\* p lies below a matched subscript (or, with skipInit, below an
\* opInitValueOf node)
BelowCut(e, pat, p, skipInit) ==
    \E k \in 0..(Len(p) - 1) :
        LET n == subAt(e, SubSeq(p, 1, k))
        IN  \/ n.op = "opSubscript" /\ ExpEq(pat, n)
            \/ skipInit /\ n.op = "opInitValueOf"

\* li lists exactly the slots of S, in pre-order
ListsInPreOrder(li, S) ==
    /\ Len(li) = Cardinality(S)
    /\ {li[i] : i \in 1..Len(li)} = S
    /\ \A i, j \in 1..Len(li) : i < j => PreOrderBefore(li[i], li[j])

SearchRecorded(skipInit) ==
    LET all == {p \in SearchPaths(a) :
                    ExpEq(b, subAt(a, p)) /\ ~BelowCut(a, b, p, skipInit)}
    IN  /\ ListsInPreOrder(res.li, all)
        /\ res.first = IF all = {} THEN <<>>
                       ELSE <<CHOOSE p \in all :
                                  \A q \in all \ {p} : PreOrderBefore(p, q)>>

\* C22: doSearch visits nodes in pre-order and records the slot of each node
\* equal to the pattern: with once set exactly the first match, with once
\* clear every match except those below a matched SSA-subscript node.
C22_PreOrderMatches ==
    pc = "searched" => SearchRecorded(FALSE)

\* C22 amended: as above, and the operand of an opInitValueOf node is never
\* searched, so matches below such a node are not recorded either.
C22_PreOrderMatchesAmended ==
    pc = "searched" => SearchRecorded(TRUE)

C22_Witness ==
    /\ pc = "searched"
    /\ b = Terminal("opWild")
    /\ a = Binary("opPlus", RefExp(regOf(24), 1), IntConst(3))
    /\ res.li = <<<<>>, <<1>>, <<2>>>>
    /\ res.first = <<<<>>>>


---------------------------------------------------------------------------
(* The parameter list of a signature under addParameter, removeParameter   *)
(* and setNumParams; res records the last call.                            *)

MaxListParams == 3

InitParams ==
    /\ pc = "params"
    /\ sig \in {Construct(cls) : cls \in {"Signature", "Pentium", "Sparc"}}
    /\ res = NoExp
    /\ a = NoExp
    /\ b = NoExp
    /\ c = NoExp
    /\ cl = NoExp
    /\ ub = "mask"
    /\ proc = NoExp

\* sig->addParameter(type, nam, e)
ParamsAdd ==
    /\ pc = "params"
    /\ ~isFault(sig)
    /\ Len(sig.params) < MaxListParams
    /\ \E nam \in {NullName, EmptyName, 0, 2, 3}, e \in {regOf(8), NoExp} :
           /\ sig' = addParameterNamed(sig, "int", nam, e)
           /\ res' = [op |-> "addParameter", nam |-> nam]
    /\ UNCHANGED <<pc, a, b, c, cl, ub, proc>>

\* sig->removeParameter(i)
ParamsRemove ==
    /\ pc = "params"
    /\ ~isFault(sig)
    /\ \E i \in 0..MaxListParams :
           /\ sig' = removeParameter(sig, i)
           /\ res' = [op |-> "removeParameter", nam |-> i]
    /\ UNCHANGED <<pc, a, b, c, cl, ub, proc>>

\* sig->setNumParams(n)
ParamsSetNum ==
    /\ pc = "params"
    /\ ~isFault(sig)
    /\ \E n \in 0..MaxListParams :
           /\ sig' = setNumParams(sig, n)
           /\ res' = [op |-> "setNumParams", nam |-> n]
    /\ UNCHANGED <<pc, a, b, c, cl, ub, proc>>

NextParams == ParamsAdd \/ ParamsRemove \/ ParamsSetNum

SpecParams == InitParams /\ [][NextParams]_vars

\* C23: after any sequence of addParameter, removeParameter and setNumParams
\* calls, a parameter added without a name gets a name paramN that no
\* parameter already in the list has.
C23_AutoNameFresh ==
    (res # NoExp /\ res.op = "addParameter" /\ res.nam \in {NullName, EmptyName}
        /\ ~isFault(sig))
    => LET n == Len(sig.params)
       IN  /\ n >= 1
           /\ sig.params[n].name > 0
           /\ \A i \in 1..(n - 1) : sig.params[i].name # sig.params[n].name

\* an unnamed parameter added after a removal: the name paramN for the new
\* size N is taken, the next free one is used
C23_Witness ==
    /\ res # NoExp /\ res.op = "addParameter" /\ res.nam = NullName
    /\ ~isFault(sig)
    /\ Len(sig.params) = 2
    /\ sig.params[1].name = 2
    /\ sig.params[2].name = 3


---------------------------------------------------------------------------
(* returnCompare on the left sides la and lb of two assignments.           *)

\* PentiumSignature::returnCompare, SparcSignature::returnCompare and the
\* default Signature::returnCompare
returnCompare(cls, la, lb) ==
    LET spPlus64 == memOf(Binary("opPlus", regOf(14), IntConst(64)))
    IN  CASE cls = "Pentium" ->
                 IF isRegN(la, 24) THEN TRUE
                 ELSE IF isRegN(lb, 24) THEN FALSE
                 ELSE IF isRegN(la, 30) THEN TRUE
                 ELSE IF isRegN(lb, 30) THEN FALSE
                 ELSE ExpLt(la, lb)
          [] cls \in {"Sparc", "SparcLib"} ->
                 IF isRegN(la, 8) THEN TRUE
                 ELSE IF isRegN(lb, 8) THEN FALSE
                 ELSE IF isRegN(la, 32) THEN TRUE
                 ELSE IF isRegN(lb, 32) THEN FALSE
                 ELSE IF isRegN(la, 64) THEN TRUE
                 ELSE IF isRegN(lb, 64) THEN FALSE
                 ELSE IF ExpEq(la, spPlus64) THEN TRUE
                 ELSE IF ExpEq(lb, spPlus64) THEN FALSE
                 ELSE ExpLt(la, lb)
          [] OTHER -> ExpLt(la, lb)

CompareExps ==
    {regOf(r) : r \in {8, 24, 25, 30, 32, 64}}
    \cup {memOf(Binary("opPlus", regOf(14), IntConst(64))),
          memOf(regOf(24)), Terminal("opPC")}

\* a, b, c are the left sides of three assignments
InitCompare ==
    /\ pc = "compare"
    /\ sig \in {Construct(cls) : cls \in {"Pentium", "Sparc", "Signature"}}
    /\ a \in CompareExps
    /\ b \in CompareExps
    /\ c \in CompareExps
    /\ cl = NoExp
    /\ res = NoExp
    /\ ub = "mask"
    /\ proc = NoExp

\* sig->returnCompare(x, y) for the pairs of a, b, c
DoReturnCompare ==
    /\ pc = "compare"
    /\ res' = [op |-> "returnCompare",
               aa |-> returnCompare(sig.cls, a, a),
               ab |-> returnCompare(sig.cls, a, b),
               ba |-> returnCompare(sig.cls, b, a),
               bc |-> returnCompare(sig.cls, b, c),
               ac |-> returnCompare(sig.cls, a, c)]
    /\ pc' = "returnCompared"
    /\ UNCHANGED <<a, b, c, cl, ub, sig, proc>>

NextCompare == DoReturnCompare

SpecCompare == InitCompare /\ [][NextCompare]_vars

\* C24: returnCompare of PentiumSignature and of SparcSignature is a strict
\* order (irreflexive, asymmetric, transitive) in which the preferred return
\* register (r24, r8) comes before every other location.
C24_ReturnCompareStrict ==
    (pc = "returnCompared" /\ sig.cls \in {"Pentium", "Sparc"})
    => LET pref == IF sig.cls = "Pentium" THEN 24 ELSE 8
       IN  /\ ~res.aa
           /\ ~(res.ab /\ res.ba)
           /\ (res.ab /\ res.bc) => res.ac
           /\ (isRegN(a, pref) /\ ~isRegN(b, pref)) => (res.ab /\ ~res.ba)


---------------------------------------------------------------------------
(* isAddrOfStackLocal.  The variable c holds the function-local static sp  *)
(* of Signature::isAddrOfStackLocal (NoExp before its initialisation).     *)

\* Signature::getStackRegister(Prog *); -1 stands for the exception
getStackRegisterOf(mach) ==
    CASE mach = "SPARC"   -> 14
      [] mach = "PENTIUM" -> 28
      [] mach = "PPC"     -> 1
      [] mach = "ST20"    -> 3
      [] OTHER            -> -1

RECURSIVE isAddrOfStackLocal(_, _, _, _)

\* Signature::isAddrOfStackLocal and SparcSignature::isAddrOfStackLocal, with
\* Signature::isStackLocal; st is the static sp before the call, the result
\* holds the answer r (or thrown) and the static sp after the call
isAddrOfStackLocal(s, mach, e, st) ==
    LET RECURSIVE isStackLocal(_)
        isStackLocal(x) ==
            IF isSubscript(x) THEN isStackLocal(sub1(x))
            ELSE IF x.op # "opMemOf"
            THEN [r |-> FALSE, thrown |-> FALSE, st |-> st]
            ELSE isAddrOfStackLocal(s, mach, sub1(x), st)
        isLocalOffsetNegative == TRUE
        isLocalOffsetPositive == s.cls \in {"Sparc", "SparcLib", "PPC", "MIPS"}
        isSp(x, sp) ==
            \/ ExpEq(x, sp)
            \/ (isSubscript(x) /\ isImplicitDef(x.val) /\ ExpEq(sub1(x), sp))
        \* the first operand must be sp or sp{0} or sp{-}
        sub1IsSp(sp) ==
            IF isSubscript(sub1(e))
            THEN isImplicitDef(sub1(e).val) /\ ExpEq(sub1(sub1(e)), sp)
            ELSE ExpEq(sub1(e), sp)
        general(sp) ==
            IF e.op \notin {"opMinus", "opPlus"} THEN isSp(e, sp)
            ELSE IF e.op = "opMinus" /\ ~isLocalOffsetNegative THEN FALSE
            ELSE IF e.op = "opPlus" /\ ~isLocalOffsetPositive THEN FALSE
            ELSE IF ~isIntConst(sub2(e)) THEN FALSE
            ELSE sub1IsSp(sp)
        sparc(sp) ==
            IF e.op \notin {"opMinus", "opPlus"} THEN isSp(e, sp)
            ELSE IF ~isIntConst(sub2(e)) THEN FALSE
            ELSE IF ~sub1IsSp(sp) THEN FALSE
            ELSE sub2(e).val < 92
    IN  IF e.op = "opAddrOf" THEN isStackLocal(sub1(e))
        ELSE IF s.cls \in {"Sparc", "SparcLib"}
        THEN [r |-> sparc(regOf(14)), thrown |-> FALSE, st |-> st]
        ELSE IF st = NoExp /\ getStackRegisterOf(mach) = -1
        THEN [r |-> FALSE, thrown |-> TRUE, st |-> st]
        ELSE LET sp == IF st = NoExp THEN regOf(getStackRegisterOf(mach))
                       ELSE st
             IN  [r |-> general(sp), thrown |-> FALSE, st |-> sp]

StackAddrs ==
    LET Sps == {regOf(14), regOf(28)}
        Bases == Sps \cup {RefExp(sp, d) : sp \in Sps, d \in {NullDef, 1, NumDefs}}
        Sums == {Binary(op, x, IntConst(k)) :
                     op \in {"opPlus", "opMinus"}, x \in Bases,
                     k \in {-100, 0, 88, 91, 92, 100}}
    IN  Bases \cup Sums
        \cup {Binary("opPlus", regOf(14), regOf(28))}
        \cup {Unary("opAddrOf", x) :
                  x \in {memOf(Binary("opMinus", regOf(sp), IntConst(k))) :
                             sp \in {14, 28}, k \in {88, 100}}
                        \cup {RefExp(memOf(regOf(14)), 1), regOf(14)}}

InitStack ==
    /\ pc = "stack"
    /\ sig \in {Construct(cls) : cls \in {"Signature", "Pentium", "Sparc", "PPC"}}
    /\ c = NoExp
    /\ res = NoExp
    /\ a = NoExp
    /\ b = NoExp
    /\ cl = NoExp
    /\ ub = "mask"
    /\ proc = NoExp

\* sig->isAddrOfStackLocal(prog, e) for a program of machine mach
DoIsAddrOfStackLocal ==
    /\ pc = "stack"
    /\ \E mach \in {"SPARC", "PENTIUM", "PPC", "ST20", "MIPS"},
          e \in StackAddrs :
           LET o == isAddrOfStackLocal(sig, mach, e, c)
           IN  /\ res' = [op |-> "isAddrOfStackLocal", mach |-> mach, e |-> e,
                          r |-> o.r, thrown |-> o.thrown]
               /\ c' = o.st
    /\ UNCHANGED <<pc, a, b, cl, ub, sig, proc>>

NextStack == DoIsAddrOfStackLocal

SpecStack == InitStack /\ [][NextStack]_vars

\* C25: SparcSignature::isAddrOfStackLocal on sp + K or sp - K (sp being r14,
\* bare or subscripted with an implicit definition) is true exactly when the
\* signed offset from sp (K for +, -K for -) is below 92.
C25_SparcLocalBelow92 ==
    (res # NoExp /\ sig.cls = "Sparc"
        /\ res.e.op \in {"opPlus", "opMinus"} /\ isIntConst(sub2(res.e))
        /\ \/ sub1(res.e) = regOf(14)
           \/ (isSubscript(sub1(res.e)) /\ isImplicitDef(sub1(res.e).val)
                  /\ sub1(sub1(res.e)) = regOf(14)))
    => LET k == sub2(res.e).val
           offset == IF res.e.op = "opPlus" THEN k ELSE -k
       IN  ~res.thrown /\ (res.r <=> offset < 92)


\* C27: isAddrOfStackLocal(prog, e) depends on the signature, the machine of
\* prog and e only: a call gives the result of the same call made first,
\* whatever programs earlier calls were given.
C27_StackLocalIsFunction ==
    res # NoExp
    => LET first == isAddrOfStackLocal(sig, res.mach, res.e, NoExp)
       IN  res.r = first.r /\ res.thrown = first.thrown


---------------------------------------------------------------------------
(* simplifyAddr: a = e, b = e->simplifyAddr(), c = b->simplifyAddr().      *)

RECURSIVE simplifyAddr(_)

\* Unary::simplifyAddr (also for Location, RefExp and TypedExp),
\* Binary::simplifyAddr, Ternary::simplifyAddr; other nodes are returned
simplifyAddr(e) ==
    IF e.cls \in {"Unary", "Location", "RefExp", "TypedExp"}
    THEN IF e.op = "opMemOf" /\ isAddrOf(sub1(e)) THEN sub1(sub1(e))
         ELSE IF e.op # "opAddrOf"
         THEN setSubExp1(e, simplifyAddr(sub1(e)))
         ELSE IF sub1(e).op = "opMemOf" THEN sub1(sub1(e))
         ELSE IF sub1(e).op = "opSize" /\ sub2(sub1(e)).op = "opMemOf"
         THEN sub1(sub2(sub1(e)))
         ELSE setSubExp1(e, simplifyAddr(sub1(e)))
    ELSE IF e.cls = "Binary"
    THEN setSubExp2(setSubExp1(e, simplifyAddr(sub1(e))),
                    simplifyAddr(sub2(e)))
    ELSE IF e.cls = "Ternary"
    THEN [e EXCEPT !.kids = <<simplifyAddr(sub1(e)), simplifyAddr(sub2(e)),
                              simplifyAddr(sub3(e))>>]
    ELSE e

MaxAddrDepth == 4

RECURSIVE AddrLevel(_)
AddrLevel(d) ==
    IF d = 0 THEN {regOf(24)}
    ELSE LET L == AddrLevel(d - 1)
         IN  L \cup {Unary("opAddrOf", x) : x \in L}
               \cup {memOf(x) : x \in L}
               \cup {Binary("opSize", IntConst(32), x) : x \in L}

AddrExps ==
    AddrLevel(MaxAddrDepth)
    \cup {Binary("opPlus", x, IntConst(4)) : x \in AddrLevel(2)}
    \cup {Ternary("opTern", regOf(24), x, IntConst(0)) : x \in AddrLevel(2)}
    \cup {RefExp(x, 1) : x \in AddrLevel(2)}

InitAddr ==
    /\ pc = "addr"
    /\ a \in AddrExps
    /\ b = NoExp
    /\ c = NoExp
    /\ cl = NoExp
    /\ res = NoExp
    /\ ub = "mask"
    /\ sig = NoExp
    /\ proc = NoExp

\* e->simplifyAddr(), then simplifyAddr() on its result
DoSimplifyAddr ==
    /\ pc \in {"addr", "addr1"}
    /\ IF pc = "addr"
       THEN b' = simplifyAddr(a) /\ c' = c /\ pc' = "addr1"
       ELSE c' = simplifyAddr(b) /\ b' = b /\ pc' = "addr2"
    /\ UNCHANGED <<a, cl, res, ub, sig, proc>>

NextAddr == DoSimplifyAddr

SpecAddr == InitAddr /\ [][NextAddr]_vars

\* e contains a[m[x]], m[a[x]] or a[size(k, m[x])] somewhere
RECURSIVE HasAddrPattern(_)
HasAddrPattern(e) ==
    \/ e.op = "opAddrOf" /\ sub1(e).op = "opMemOf"
    \/ e.op = "opMemOf" /\ sub1(e).op = "opAddrOf"
    \/ e.op = "opAddrOf" /\ sub1(e).op = "opSize"
           /\ sub2(sub1(e)).op = "opMemOf"
    \/ \E i \in 1..Len(e.kids) : HasAddrPattern(e.kids[i])

\* C26: simplifyAddr is idempotent, and its result contains no a[m[x]],
\* m[a[x]] or a[size(k, m[x])], also when such patterns are nested.
C26_SimplifyAddrComplete ==
    /\ pc \in {"addr1", "addr2"} => ~HasAddrPattern(b)
    /\ pc = "addr2" => c = b


---------------------------------------------------------------------------
(* clone of a signature.  sig is the original and cl its clone (NoExp      *)
(* before the call of clone); a is the original as it was when cloned.     *)
(* c.p[i] is the position in sig.params of the Parameter object that       *)
(* cl.params[i] points to, or 0 when the clone has an object of its own;   *)
(* c.r is the same for the Return objects.  One call on the clone follows  *)
(* the call of clone.                                                      *)

MaxCloneParams == 1

\* clone of Signature, CustomSignature and each convention: a signature made
\* by the constructor taking a name, then the members each clone assigns
cloneSig(s) ==
    LET n == Construct(s.cls)
    IN  [cls |-> s.cls,
         params |-> [i \in 1..Len(s.params) |->
                        Parameter(s.params[i].type, s.params[i].name,
                                  clone(s.params[i].exp))],
         returns |-> [i \in 1..Len(s.returns) |->
                         Return(s.returns[i].type, clone(s.returns[i].exp))],
         ellipsis |-> s.ellipsis,
         unknown |-> IF s.cls \in {"Win32", "Win32Tc", "SparcLib"}
                     THEN n.unknown ELSE s.unknown,
         forced |-> IF s.cls = "Custom" THEN s.forced ELSE n.forced]

InitClone ==
    /\ pc = "built"
    /\ sig \in {Construct(cls) : cls \in SigClasses \cup {"Custom"}}
    /\ cl = NoExp
    /\ a = NoExp
    /\ c = NoExp
    /\ res = NoExp
    /\ b = NoExp
    /\ ub = "mask"
    /\ proc = NoExp

\* setUnknown(b), setForced(b), addEllipsis() on the original
CloneSetFlag ==
    /\ pc = "built"
    /\ \E f \in {"unknown", "forced", "ellipsis"}, v \in BOOLEAN :
           /\ f = "ellipsis" => v
           /\ sig' = [sig EXCEPT ![f] = v]
           /\ res' = [op |-> "setFlag", fresh |-> FALSE]
    /\ UNCHANGED <<pc, a, b, c, cl, ub, proc>>

\* addParameter(type, QString::null, e) on the original, or on the clone
\* once there is one
CloneAddParameter ==
    /\ pc \in {"built", "cloned"}
    /\ res' = [op |-> "addParameter", fresh |-> FALSE]
    /\ IF pc = "built"
       THEN /\ Len(sig.params) < MaxCloneParams
            /\ sig' = addParameterNamed(sig, "int", NullName, regOf(8))
            /\ UNCHANGED <<pc, cl, c>>
       ELSE /\ cl' = addParameterNamed(cl, "int", NullName, regOf(8))
            /\ c' = [c EXCEPT !.p = Append(@, 0)]
            /\ pc' = "mutated"
            /\ UNCHANGED sig
    /\ UNCHANGED <<a, b, ub, proc>>

\* addReturn(type, e) on the original, once
CloneAddReturn ==
    /\ pc = "built"
    /\ Len(sig.returns) = Len(Construct(sig.cls).returns)
    /\ \E type \in {"int", "void"} :
           /\ res' = [op |-> "addReturn", fresh |-> res = NoExp, type |-> type]
           /\ sig' = addReturnTyped(sig, type, regOf(24))
    /\ UNCHANGED <<pc, a, b, c, cl, ub, proc>>

\* cl = sig->clone()
CloneClone ==
    /\ pc = "built"
    /\ cl' = cloneSig(sig)
    \* ST20Signature::clone assigns the vectors of pointers, so the clone
    \* points to the objects of the original; the others use cloneVec
    /\ c' = [p |-> [i \in 1..Len(sig.params) |->
                       IF sig.cls = "ST20" THEN i ELSE 0],
             r |-> [i \in 1..Len(sig.returns) |->
                       IF sig.cls = "ST20" THEN i ELSE 0]]
    /\ a' = sig
    /\ res' = [op |-> "clone", fresh |-> FALSE]
    /\ pc' = "cloned"
    /\ UNCHANGED <<b, ub, sig, proc>>

\* cl->setParamType(n, ty), cl->setParamName(n, name), cl->setParamExp(n, e):
\* the Parameter object params[n] is changed, whoever else points to it
CloneSetParam ==
    /\ pc = "cloned"
    /\ \E n \in 0..(Len(cl.params) - 1),
          fv \in {<<"type", "char">>, <<"name", 0>>, <<"exp", regOf(9)>>} :
           /\ cl' = [cl EXCEPT !.params[n + 1][fv[1]] = fv[2]]
           /\ sig' = IF c.p[n + 1] # 0
                     THEN [sig EXCEPT !.params[c.p[n + 1]][fv[1]] = fv[2]]
                     ELSE sig
    /\ res' = [op |-> "setParam", fresh |-> FALSE]
    /\ pc' = "mutated"
    /\ UNCHANGED <<a, b, c, ub, proc>>

\* cl->setReturnType(n, ty)
CloneSetReturnType ==
    /\ pc = "cloned"
    /\ \E n \in 0..Len(cl.returns) :
           IF n < Len(cl.returns)
           THEN /\ cl' = [cl EXCEPT !.returns[n + 1].type = "char"]
                /\ sig' = IF c.r[n + 1] # 0
                          THEN [sig EXCEPT !.returns[c.r[n + 1]].type = "char"]
                          ELSE sig
           ELSE UNCHANGED <<cl, sig>>
    /\ res' = [op |-> "setReturnType", fresh |-> FALSE]
    /\ pc' = "mutated"
    /\ UNCHANGED <<a, b, c, ub, proc>>

\* cl->removeParameter(i)
CloneRemoveParameter ==
    /\ pc = "cloned"
    /\ \E i \in 0..(Len(cl.params) - 1) :
           /\ cl' = removeParameter(cl, i)
           /\ c' = [c EXCEPT !.p = [j \in 1..(Len(@) - 1) |->
                                       IF j < i + 1 THEN @[j] ELSE @[j + 1]]]
    /\ res' = [op |-> "removeParameter", fresh |-> FALSE]
    /\ pc' = "mutated"
    /\ UNCHANGED <<a, b, ub, sig, proc>>

NextClone ==
    \/ CloneSetFlag
    \/ CloneAddParameter
    \/ CloneAddReturn
    \/ CloneClone
    \/ CloneSetParam
    \/ CloneSetReturnType
    \/ CloneRemoveParameter

SpecClone == InitClone /\ [][NextClone]_vars

\* C28: a cloned signature is independent of its original, for every class:
\* setParamType, setParamName, setParamExp, setReturnType, addParameter and
\* removeParameter on the clone leave the original as it was.
C28_CloneIndependent ==
    pc \in {"cloned", "mutated"} => sig = a


\* C29: a freshly constructed convention signature (Win32, Win32Tc, Pentium,
\* SPARC, PPC, MIPS, ST20) has no parameters and exactly one return, the
\* register of its getStackRegister(); an addReturn of a non-void type made
\* next lands at index 1.
C29_FreshConvention ==
    (pc = "built" /\ sig.cls \notin {"Signature", "Custom"})
    => /\ res = NoExp
          => /\ Len(sig.params) = 0
             /\ Len(sig.returns) = 1
             /\ sig.returns[1].exp = regOf(getStackRegister(sig))
       /\ (res # NoExp /\ res.op = "addReturn" /\ res.fresh
              /\ res.type # "void")
          => /\ Len(sig.returns) = 2
             /\ sig.returns[2] = Return(res.type, regOf(24))

\* C30: clone keeps the unknown, forced and ellipsis flags and the class of
\* the signature, for every class.
C30_CloneKeepsFlags ==
    (pc = "cloned" /\ res.op = "clone")
    => /\ cl.cls = sig.cls
       /\ cl.unknown = sig.unknown
       /\ cl.forced = sig.forced
       /\ cl.ellipsis = sig.ellipsis

=============================================================================
